---------------------------- MODULE Spec2Model ----------------------------
(***************************************************************************)
(* Team registration and evaluation scoring of the IEEE hackathon          *)
(* back end, as state machines over the relational store.                  *)
(*                                                                         *)
(* The store is the MySQL schema of prisma/migrations/.../migration.sql    *)
(* (InnoDB, default isolation REPEATABLE READ).  A request handler is cut  *)
(* at its awaits: every store statement is one atomic step.  Statements    *)
(* issued through the handle `tx` of prisma.$transaction stay private to   *)
(* the request (txIns / txDel) until the callback returns, and are thrown  *)
(* away when it throws.  Statements issued through the global `prisma`     *)
(* client take effect at once.                                             *)
(***************************************************************************)
EXTENDS Integers, Sequences, FiniteSets, TLC

VARIABLES
    db,          \* the committed rows of every table
    txIns,       \* per request: rows written inside its open transaction
    txDel,       \* per request: committed rows its open transaction deleted
    txGap,       \* per request: Evaluation ids whose empty score range it locked
    impl,        \* which registerTeam implementation is deployed
    pc,          \* per request: the await the handler is parked at
    body,        \* per request: req.body (and req.user, req.files)
    uploads,     \* per request: outcome of every Cloudinary upload promise
    local,       \* per request: the handler's local variables
    thrown,      \* per request: the exception its catch block received
    res,         \* per request: the response that was sent
    criteriaOps  \* the number of criteria calls answered so far

vars == <<db, txIns, txDel, txGap, impl, pc, body, uploads, local, thrown,
          res, criteriaOps>>

----------------------------------------------------------------------------
(* Bounds of the model *)

\* number of requests a behaviour runs (concurrently or in sequence)
MaxReq == 2

\* number of create/update/delete calls on the criteria table in a behaviour
MaxCriteriaOps == 1

\* length of a score list handed to the total computation on its own
MaxScores == 2

\* the roster positions filled with every kind of member, from the first on
FreeSlots == 3

Requests == 1..MaxReq

----------------------------------------------------------------------------
(* Values *)

\* JavaScript undefined, for a field the client left out
Undefined == "undefined"

\* SQL NULL in a string column
Null == "NULL"

\* an absent artifact URL (schoolIdPdf undefined in the request, NULL in the row)
NoUrl == <<>>

\* JavaScript truthiness of a request field: "false" stands for the boolean
\* false, "true" for the boolean true, every other non-empty string is truthy
Truthy(v) == v \notin {Undefined, "", "false"}

Tables == {"Team", "TeamMember", "FacultyMentor", "CommunityRepresentative",
           "User", "Submission", "EvaluationCriteria", "Evaluation",
           "EvaluationScore", "Deadline"}

NoRows == [t \in Tables |-> {}]

Rows(t, rows) == [NoRows EXCEPT ![t] = rows]

Merge(a, b) == [t \in Tables |-> a[t] \cup b[t]]

HttpStatus == [OK |-> 200, CREATED |-> 201, BAD_REQUEST |-> 400,
               UNAUTHORIZED |-> 401, NOT_FOUND |-> 404, CONFLICT |-> 409,
               INTERNAL_SERVER_ERROR |-> 500]

NoRes == [status |-> 0, text |-> "", data |-> <<>>]

sendSuccess(data, message, statusCode) ==
    [status |-> statusCode, text |-> message, data |-> data]

sendError(error, statusCode) ==
    [status |-> statusCode, text |-> error, data |-> <<>>]

NoError == [code |-> "", target |-> "", at |-> ""]

\* NULL in User.teamId; the ids of the teams are numbers from 0 on
NoTeam == -1

\* bcrypt: the hash of a password, and the test of a password against a hash
hashPassword(password) == <<"bcrypt", password>>

comparePassword(password, hash) == hash = hashPassword(password)

\* existingEvaluation is the set of rows findUnique found: one row or none;
\* existingSubmission the set of rows the upsert found, user the set of rows
\* findFirst found, existingDeadline likewise
NoLocal == [totalScore |-> <<0, 1>>, criteria |-> {}, existingEvaluation |-> {},
            evaluationRecord |-> 0, teamId |-> NoTeam, existingSubmission |-> {},
            user |-> {}, existingDeadline |-> {}]

NoBody == [kind |-> "none"]


----------------------------------------------------------------------------
(* Registration requests *)

TeamNames == {"Falcons", "Eagles"}

LeaderEmails == {"lead1@ieee.org", "lead2@ieee.org"}

Member(email, gender, role, isIeeeMember, ieeeNumber, schoolStandard) ==
    [fullName |-> email, email |-> email, gender |-> gender, role |-> role,
     isIeeeMember |-> isIeeeMember, ieeeNumber |-> ieeeNumber,
     schoolStandard |-> schoolStandard, schoolIdPdf |-> NoUrl]

Leader(email, isIeeeMember, ieeeNumber) ==
    Member(email, "Male", "TeamLeader", isIeeeMember, ieeeNumber, Undefined)

Student(gender, schoolStandard) ==
    Member("student@school.in", gender, "SchoolStudent", Undefined, Undefined,
           schoolStandard)

Plain(gender) ==
    Member("member@ieee.org", gender, "TeamMember", "false", Undefined, Undefined)

\* the roster of end-to-end scenario A: one IEEE leader, one school student of
\* standard 8th in slot 2, four members, a female among them
EligibleRoster(email, isIeeeMember) ==
    << Leader(email, isIeeeMember, "IEEE123"), Student("Female", "8th"),
       Plain("Male"), Plain("Male"), Plain("Female"), Plain("Male") >>

Rosters ==
    { EligibleRoster("lead1@ieee.org", "Yes"),
      EligibleRoster("lead2@ieee.org", "true"),
      \* five members
      << Leader("lead1@ieee.org", "Yes", "IEEE123"), Student("Female", "8th"),
         Plain("Male"), Plain("Male"), Plain("Male") >>,
      \* the leader has no IEEE number
      << Leader("lead1@ieee.org", "Yes", Undefined), Student("Female", "8th"),
         Plain("Male"), Plain("Male"), Plain("Male"), Plain("Male") >>,
      \* two school students, the second without a standard
      << Leader("lead1@ieee.org", "Yes", "IEEE123"), Student("Female", "8th"),
         Student("Male", ""), Plain("Male"), Plain("Male"), Plain("Male") >>,
      \* two school students
      << Leader("lead1@ieee.org", "Yes", "IEEE123"), Student("Female", "8th"),
         Student("Male", "9th"), Plain("Male"), Plain("Male"), Plain("Male") >>,
      \* no school student
      << Leader("lead1@ieee.org", "Yes", "IEEE123"), Plain("Female"),
         Plain("Male"), Plain("Male"), Plain("Male"), Plain("Male") >>,
      \* two leaders
      << Leader("lead1@ieee.org", "Yes", "IEEE123"),
         Leader("lead2@ieee.org", "Yes", "IEEE456"), Student("Female", "8th"),
         Plain("Male"), Plain("Male"), Plain("Male") >>,
      \* no female member
      << Leader("lead1@ieee.org", "Yes", "IEEE123"), Student("Male", "8th"),
         Plain("Male"), Plain("Male"), Plain("Male"), Plain("Male") >> }

\* req.files: the roster positions p that come with a field schoolIdPdf_<p-1>
FileSets == { {}, {2} }

RegisterBodies ==
    [kind : {"registerTeam"}, teamName : TeamNames, theme : {"Smart Cities"},
     members : Rosters, files : FileSets,
     facultyMentor : {[name |-> "Mentor", facultyId |-> "F1"]},
     communityRepresentative : {[name |-> "Rep", affiliation |-> "NGO"]}]

IsLeader(m) == m.role = "TeamLeader"

IsStudent(m) == m.role = "SchoolStudent"

IsFemale(m) == m.gender = "Female"

teamLeaderCount(members) ==
    Cardinality({i \in 1..Len(members) : IsLeader(members[i])})

schoolStudentCount(members) ==
    Cardinality({i \in 1..Len(members) : IsStudent(members[i])})

\* every roster counts as having one female member
femaleCountOne(members) == 1

femaleCount(members) ==
    Cardinality({i \in 1..Len(members) : IsFemale(members[i])})

\* no roster length is refused
AnySizeAllowed(members) == FALSE

\* if (body.members.length !== 6)
WrongSize(members) == Len(members) # 6

\* participant.handler.ts: the composition loop; "" when no member returns early
RECURSIVE CompositionLoop(_, _)
CompositionLoop(members, i) ==
    IF i > Len(members) THEN ""
    ELSE LET member == members[i] IN
         IF IsLeader(member)
            /\ (~Truthy(member.isIeeeMember) \/ ~Truthy(member.ieeeNumber))
         THEN "Team Leader must be an IEEE member with valid membership number"
         ELSE IF IsStudent(member) /\ ~Truthy(member.schoolStandard)
         THEN "School Student must have a valid school standard (6th-9th)"
         ELSE CompositionLoop(members, i + 1)

\* every roster is accepted
AcceptAnyRoster(members) == ""

\* participant.handler.ts: everything registerTeam checks before the first
\* await; "" when the roster is accepted
ValidateRoster(members) ==
    IF WrongSize(members) THEN "Team must have exactly 6 members"
    ELSE IF CompositionLoop(members, 1) # "" THEN CompositionLoop(members, 1)
    ELSE IF teamLeaderCount(members) # 1
         THEN "Team must have exactly one Team Leader"
    ELSE IF schoolStudentCount(members) = 0
         THEN "Team must have at least one School Student (6th-9th standard)"
    ELSE IF femaleCount(members) = 0
         THEN "Team must have at least one female member"
    ELSE ""

\* the secure_url Cloudinary answers for the upload of request r, position p
SecureUrl(r, p) == <<"secure_url", r, p>>

\* the upload variant: cloudinaryUrls[`schoolIdPdf_${i}`] for position p = i + 1
PdfUrl(r, files, p) == IF p \in files THEN SecureUrl(r, p) ELSE NoUrl

\* the upload variant: the composition loop, which also needs the uploaded PDF
RECURSIVE CompositionLoopUpload(_, _, _, _)
CompositionLoopUpload(r, members, files, i) ==
    IF i > Len(members) THEN ""
    ELSE LET member == members[i] IN
         IF IsLeader(member)
            /\ (~Truthy(member.isIeeeMember) \/ ~Truthy(member.ieeeNumber))
         THEN "Team Leader must be an IEEE member with valid membership number"
         ELSE IF IsStudent(member) /\ ~Truthy(member.schoolStandard)
         THEN "School Student must have a valid school standard (7th-9th)"
         ELSE IF IsStudent(member) /\ PdfUrl(r, files, i) = NoUrl
         THEN "School ID PDF is required for School Student"
         ELSE CompositionLoopUpload(r, members, files, i + 1)

\* the upload variant: the checks that follow the uploads
ValidateRosterUpload(r, members, files) ==
    IF CompositionLoopUpload(r, members, files, 1) # ""
         THEN CompositionLoopUpload(r, members, files, 1)
    ELSE IF teamLeaderCount(members) # 1
         THEN "Team must have exactly one Team Leader"
    ELSE IF schoolStudentCount(members) # 1
         THEN "Team must have exactly one School Student"
    ELSE IF femaleCount(members) = 0
         THEN "Team must have at least one female member"
    ELSE ""

\* the upload variant: member.schoolIdPdf = pdfUrl for every school student
AttachPdfs(r, members, files) ==
    [i \in 1..Len(members) |->
        IF IsStudent(members[i])
        THEN [members[i] EXCEPT !.schoolIdPdf = PdfUrl(r, files, i)]
        ELSE members[i]]


\* body.members.find(m => m.role === 'TeamLeader')
TeamLeader(members) ==
    members[CHOOSE i \in 1..Len(members) :
              /\ IsLeader(members[i])
              /\ \A j \in 1..(i - 1) : ~IsLeader(members[j])]

----------------------------------------------------------------------------
(* Exact arithmetic for totalScore: a number is a reduced fraction <<n, d>> *)

Abs(x) == IF x < 0 THEN -x ELSE x

RECURSIVE Gcd(_, _)
Gcd(a, b) == IF b = 0 THEN a ELSE Gcd(b, a % b)

Rat(n, d) ==
    LET g == Gcd(Abs(n), Abs(d))
        s == IF d < 0 THEN -1 ELSE 1
    IN <<(s * n) \div g, (s * d) \div g>>

RatAdd(a, b) == Rat(a[1] * b[2] + b[1] * a[2], a[2] * b[2])

RatMul(a, k) == Rat(a[1] * k, a[2])

RatDiv(a, k) == Rat(a[1], a[2] * k)

----------------------------------------------------------------------------
(* submitEvaluation: the request, the total, the rows *)

Evaluators == {"evaluator1", "evaluator2"}

Score(criteriaId, score) == [criteriaId |-> criteriaId, score |-> score]

\* req.body.scores: the score sets of scenario B, partial and empty sets, one
\* that names a criterion twice and one that names criterion C, which does not
\* exist unless createEvaluationCriteria made it
ScoreLists ==
    { <<>>,
      <<Score("A", 80)>>,
      <<Score("B", 70)>>,
      <<Score("A", 80), Score("B", 70)>>,
      <<Score("A", 80), Score("A", 70)>>,
      <<Score("A", 80), Score("C", 50)>> }

EvaluationBodies ==
    [kind : {"submitEvaluation"}, userId : Evaluators, submissionId : {"s1"},
     scores : ScoreLists, comments : {"revised"}]
    \cup [kind : {"submitEvaluation"}, userId : {"evaluator1"},
          submissionId : {""}, scores : {<<>>}, comments : {"revised"}]

\* criteria.find((c) => c.id === score.criteriaId): the rows that match
CriteriaFind(criteria, criteriaId) == {c \in criteria : c.id = criteriaId}

\* the for loop of submitEvaluation over scores[i..]: what it adds to
\* totalScore and to totalWeightage
\* a loop that counts a score of no criterion at full weight
RECURSIVE ScoreLoopAll(_, _, _)
ScoreLoopAll(criteria, scores, i) ==
    IF i > Len(scores) THEN [totalScore |-> <<0, 1>>, totalWeightage |-> 0]
    ELSE LET rest == ScoreLoopAll(criteria, scores, i + 1)
             found == CriteriaFind(criteria, scores[i].criteriaId)
             weightage == IF found # {} THEN (CHOOSE c \in found : TRUE).weightage
                          ELSE 100
         IN [totalScore |-> RatAdd(Rat(scores[i].score * weightage, 100),
                                   rest.totalScore),
             totalWeightage |-> weightage + rest.totalWeightage]

RECURSIVE ScoreLoop(_, _, _)
ScoreLoop(criteria, scores, i) ==
    IF i > Len(scores) THEN [totalScore |-> <<0, 1>>, totalWeightage |-> 0]
    ELSE LET rest == ScoreLoop(criteria, scores, i + 1)
             found == CriteriaFind(criteria, scores[i].criteriaId)
         IN IF found # {}
            THEN LET criteriaItem == CHOOSE c \in found : TRUE
                 IN [totalScore |->
                        RatAdd(Rat(scores[i].score * criteriaItem.weightage, 100),
                               rest.totalScore),
                     totalWeightage |-> criteriaItem.weightage + rest.totalWeightage]
            ELSE rest

\* the total without the normalization step
TotalScoreUnnormalized(criteria, scores) ==
    ScoreLoop(criteria, scores, 1).totalScore

\* the total submitEvaluation stores: the loop, then the normalization
TotalScore(criteria, scores) ==
    LET sum == ScoreLoop(criteria, scores, 1)
    IN IF sum.totalWeightage > 0 /\ sum.totalWeightage # 100
       THEN RatDiv(RatMul(sum.totalScore, 100), sum.totalWeightage)
       ELSE sum.totalScore

\* findUnique by submissionId_evaluatorId: the rows of the pair, one or none
EvaluationOf(rows, submissionId, evaluatorId) ==
    {e \in rows : e.submissionId = submissionId /\ e.evaluatorId = evaluatorId}

\* the id of the one row of a set findUnique answered
IdOf(found) == (CHOOSE e \in found : TRUE).id

ScoresOf(rows, evaluationId) == {s \in rows : s.evaluationId = evaluationId}

\* the row tx.evaluation.create and tx.evaluation.update write
EvaluationRow(id, r) ==
    [id |-> id, submissionId |-> body[r].submissionId,
     evaluatorId |-> body[r].userId, totalScore |-> local[r].totalScore,
     comments |-> body[r].comments]

\* a createMany that writes the first of the scores only
ScoreRowsFirst(r, evaluationId, scores) ==
    {[id |-> <<r, i>>, evaluationId |-> evaluationId,
      criteriaId |-> scores[i].criteriaId, score |-> scores[i].score]
       : i \in 1..(IF Len(scores) > 0 THEN 1 ELSE 0)}

\* the rows of tx.evaluationScore.createMany
ScoreRows(r, evaluationId, scores) ==
    {[id |-> <<r, i>>, evaluationId |-> evaluationId,
      criteriaId |-> scores[i].criteriaId, score |-> scores[i].score]
       : i \in 1..Len(scores)}

----------------------------------------------------------------------------
(* The store: transactions, unique indexes, locks *)

\* the requests whose transaction is open and holds rows or locks
InTx(q) == txIns[q] # NoRows \/ txDel[q] # NoRows \/ txGap[q] # {}

\* what a locking statement of request r reads: the committed rows, minus the
\* rows r deleted, plus the rows r wrote
View(r) == [t \in Tables |-> (db[t] \ txDel[r][t]) \cup txIns[r][t]]

\* a statement of request r that inserts the rows ins and deletes the rows del,
\* issued through the transaction handle ("tx") or the global client ("prisma")
Write(client, r, ins, del) ==
    IF client = "tx"
    THEN /\ txIns' = [txIns EXCEPT ![r] =
                        [t \in Tables |-> (@[t] \ del[t]) \cup ins[t]]]
         /\ txDel' = [txDel EXCEPT ![r] =
                        [t \in Tables |-> @[t] \cup (del[t] \cap db[t])]]
         /\ db' = db
    ELSE /\ db' = [t \in Tables |-> (db[t] \ del[t]) \cup ins[t]]
         /\ UNCHANGED <<txIns, txDel>>

\* the callback of prisma.$transaction returned: COMMIT
Commit(r) ==
    /\ db' = [t \in Tables |-> (db[t] \ txDel[r][t]) \cup txIns[r][t]]
    /\ txIns' = [txIns EXCEPT ![r] = NoRows]
    /\ txDel' = [txDel EXCEPT ![r] = NoRows]
    /\ txGap' = [txGap EXCEPT ![r] = {}]

\* the callback of prisma.$transaction threw: ROLLBACK
Rollback(r) ==
    /\ db' = db
    /\ txIns' = [txIns EXCEPT ![r] = NoRows]
    /\ txDel' = [txDel EXCEPT ![r] = NoRows]
    /\ txGap' = [txGap EXCEPT ![r] = {}]

\* the store is unreachable or times out while the handler is at `at`
StoreFailure(at) == [code |-> "P1001", target |-> "", at |-> at]

\* unique constraint failed
P2002(target, at) == [code |-> "P2002", target |-> target, at |-> at]

\* foreign key constraint failed
P2003(target, at) == [code |-> "P2003", target |-> target, at |-> at]

\* InnoDB picked the transaction as the victim of a deadlock
P2034(at) == [code |-> "P2034", target |-> "", at |-> at]

\* UNIQUE INDEX Team_teamName_key
TeamNameTaken(r, teamName) ==
    \E t \in View(r)["Team"] : t.teamName = teamName

\* UNIQUE INDEX User_email_key
EmailTaken(r, email) ==
    \E u \in View(r)["User"] : u.email = email

\* no unique index on Evaluation (submissionId, evaluatorId)
EvaluationPairFree(r, submissionId, evaluatorId) == FALSE

\* UNIQUE INDEX Evaluation_submissionId_evaluatorId_key
EvaluationPairTaken(r, submissionId, evaluatorId) ==
    EvaluationOf(View(r)["Evaluation"], submissionId, evaluatorId) # {}

\* InnoDB: the requests whose locks the next statement of r has to wait for
Blockers(r) ==
    LET others == Requests \ {r} IN
    CASE pc[r] = "teamCreate" ->
           {q \in others : \E t \in txIns[q]["Team"] : t.teamName = body[r].teamName}
      [] pc[r] = "userCreate" ->
           {q \in others : \E u \in txIns[q]["User"] :
                              u.email = TeamLeader(body[r].members).email}
      [] pc[r] = "deleteScores" ->
           \* record locks on the score rows another transaction deleted or wrote
           {q \in others :
              ScoresOf(txIns[q]["EvaluationScore"] \cup txDel[q]["EvaluationScore"],
                       IdOf(local[r].existingEvaluation)) # {}}
      [] pc[r] = "updateEvaluation" ->
           \* the record lock of another update of the same Evaluation row
           {q \in others : \E e \in txDel[q]["Evaluation"] :
                              e.id = IdOf(local[r].existingEvaluation)}
      [] pc[r] = "createEvaluation" ->
           \* the uncommitted insert of the same (submissionId, evaluatorId) key
           {q \in others : \E e \in txIns[q]["Evaluation"] :
                              /\ e.id = q
                              /\ e.submissionId = body[r].submissionId
                              /\ e.evaluatorId = body[r].userId}
      [] pc[r] = "createScores" ->
           \* the range lock deleteMany left on the scores of the Evaluation
           IF body[r].scores = <<>> THEN {}
           ELSE {q \in others : local[r].evaluationRecord \in txGap[q]}
      [] OTHER -> {}

RECURSIVE WaitsFor(_, _)
WaitsFor(set, n) ==
    IF n = 0 THEN set
    ELSE WaitsFor(set \cup UNION {Blockers(q) : q \in set}, n - 1)

\* r waits, directly or not, for a request that waits for r
Deadlocked(r) == r \in WaitsFor(Blockers(r), MaxReq)

----------------------------------------------------------------------------
(* registerTeam *)

\* the rows of tx.team.create with its nested creates (participant.handler.ts)
TeamCreate(r, b) ==
    [NoRows EXCEPT
       !["Team"] = {[id |-> r, teamName |-> b.teamName, theme |-> b.theme]},
       !["TeamMember"] =
          {[id |-> <<r, i>>, teamId |-> r,
            fullName |-> b.members[i].fullName,
            email |-> b.members[i].email,
            gender |-> b.members[i].gender,
            role |-> b.members[i].role,
            isIeeeMember |-> (b.members[i].isIeeeMember = "Yes"),
            ieeeNumber |-> IF b.members[i].ieeeNumber = Undefined
                           THEN Null ELSE b.members[i].ieeeNumber,
            schoolStandard |-> IF b.members[i].schoolStandard = Undefined
                               THEN Null ELSE b.members[i].schoolStandard,
            schoolIdPdf |-> NoUrl] : i \in 1..Len(b.members)},
       !["FacultyMentor"] =
          {[teamId |-> r, name |-> b.facultyMentor.name,
            facultyId |-> b.facultyMentor.facultyId]},
       !["CommunityRepresentative"] =
          {[teamId |-> r, name |-> b.communityRepresentative.name,
            affiliation |-> b.communityRepresentative.affiliation]}]

\* the rows of tx.team.create in the upload variant (membersToCreate)
TeamCreateUpload(r, b) ==
    [NoRows EXCEPT
       !["Team"] = {[id |-> r, teamName |-> b.teamName, theme |-> b.theme]},
       !["TeamMember"] =
          {[id |-> <<r, i>>, teamId |-> r,
            fullName |-> b.members[i].fullName,
            email |-> b.members[i].email,
            gender |-> b.members[i].gender,
            role |-> b.members[i].role,
            isIeeeMember |-> (b.members[i].isIeeeMember \in {"Yes", "true"}),
            ieeeNumber |-> IF Truthy(b.members[i].ieeeNumber)
                           THEN b.members[i].ieeeNumber ELSE Null,
            schoolStandard |-> IF Truthy(b.members[i].schoolStandard)
                               THEN b.members[i].schoolStandard ELSE Null,
            schoolIdPdf |-> b.members[i].schoolIdPdf] : i \in 1..Len(b.members)}]

\* the row of tx.user.create
UserCreate(r, b) ==
    Rows("User", {[id |-> r, name |-> TeamLeader(b.members).fullName,
                   email |-> TeamLeader(b.members).email,
                   password |-> hashPassword("qwert123"), role |-> "participant",
                   teamId |-> r, deleted |-> FALSE]})

\* the team created through the global handle, outside the transaction
TeamCreateClientGlobal == "prisma"

\* the handle registerTeam creates the team through
TeamCreateClient == "tx"

\* the handle registerTeam creates the leader's account through
UserCreateClient == "tx"

\* the catch block of registerTeam
RegisterCatch(error) ==
    IF impl = "participant" /\ error.code = "P2002"
    THEN sendError("Team name already exists", HttpStatus.CONFLICT)
    ELSE sendError("Failed to register team", HttpStatus.INTERNAL_SERVER_ERROR)

\* the handler of request r sends its response and ends; of its locals only
\* what findUnique had answered is kept
Respond(r, response) ==
    /\ res' = [res EXCEPT ![r] = response]
    /\ pc' = [pc EXCEPT ![r] = "done"]
    /\ local' = [local EXCEPT ![r] = [NoLocal EXCEPT !.existingEvaluation =
                                        local[r].existingEvaluation]]

\* the handler responds after its store statements; the request is forgotten
Answer(r, response) ==
    /\ Respond(r, response)
    /\ body' = [body EXCEPT ![r] = NoBody]

\* the handler returns early with an error response; nothing was written
Reject(r, error, statusCode) ==
    /\ Answer(r, sendError(error, statusCode))
    /\ UNCHANGED <<db, txIns, txDel, txGap, thrown>>

\* registerTeam refuses the request b before any store statement; the refused
\* request stays on record beside its response
Refuse(r, b, error, statusCode) ==
    /\ Respond(r, sendError(error, statusCode))
    /\ body' = [body EXCEPT ![r] = b]
    /\ UNCHANGED <<db, txIns, txDel, txGap, thrown>>

\* the handler goes on to its next await
Goto(r, label) ==
    /\ pc' = [pc EXCEPT ![r] = label]
    /\ UNCHANGED <<thrown, res>>

\* an exception reaches the catch block of registerTeam
RegisterThrow(r, error) ==
    /\ Rollback(r)
    /\ thrown' = [thrown EXCEPT ![r] = error]
    /\ Answer(r, RegisterCatch(error))

\* requests are numbered in the order they arrive
Arrives(r) == pc[r] = "idle" /\ \A q \in 1..(r - 1) : pc[q] # "idle"

\* POST /participant/register arrives with a body of `bodies`; runs to the
\* first await
RegisterTeam(r, bodies) ==
    /\ Arrives(r)
    /\ \E b \in bodies :
         /\ impl = "upload" \/ b.files = {}
         /\ IF impl = "participant"
            THEN /\ IF ValidateRoster(b.members) # ""
                    THEN Refuse(r, b, ValidateRoster(b.members), HttpStatus.BAD_REQUEST)
                    ELSE /\ Goto(r, "findTeam")
                         /\ body' = [body EXCEPT ![r] = b]
                         /\ UNCHANGED <<db, txIns, txDel, txGap, local>>
                 /\ uploads' = uploads
            ELSE IF WrongSize(b.members)
                 THEN /\ Refuse(r, b, "Team must have exactly 6 members",
                                HttpStatus.BAD_REQUEST)
                      /\ uploads' = uploads
                 ELSE /\ Goto(r, "uploads")
                      /\ body' = [body EXCEPT ![r] = b]
                      /\ uploads' = [uploads EXCEPT ![r] = [p \in b.files |-> "pending"]]
                      /\ UNCHANGED <<db, txIns, txDel, txGap, local>>
    /\ UNCHANGED <<impl, criteriaOps>>

\* Cloudinary calls back for one upload_stream: resolve or reject
UploadCallback(r) ==
    /\ \E p \in DOMAIN uploads[r] : \E outcome \in {"resolved", "rejected"} :
         /\ uploads[r][p] = "pending"
         /\ uploads' = [uploads EXCEPT ![r][p] = outcome]
    /\ UNCHANGED <<db, txIns, txDel, txGap, impl, pc, body, local, thrown, res,
                   criteriaOps>>

\* no upload promise ever rejects Promise.all
UploadsNeverFail(r) == FALSE

\* Promise.all(uploadPromises) rejects as soon as one of the promises rejects
UploadsFailed(r) == \E p \in DOMAIN uploads[r] : uploads[r][p] = "rejected"

\* await Promise.all(uploadPromises) settles; then the composition checks
AwaitUploads(r) ==
    /\ pc[r] = "uploads"
    /\ IF UploadsFailed(r)
       THEN Refuse(r, body[r], "Failed to upload files",
                   HttpStatus.INTERNAL_SERVER_ERROR)
       ELSE /\ \A p \in DOMAIN uploads[r] : uploads[r][p] # "pending"
            /\ LET b == body[r]
                   error == ValidateRosterUpload(r, b.members, b.files)
               IN IF error # ""
                  THEN Refuse(r, b, error, HttpStatus.BAD_REQUEST)
                  ELSE /\ Goto(r, "findTeam")
                       /\ body' = [body EXCEPT ![r].members =
                                     AttachPdfs(r, b.members, b.files)]
                       /\ UNCHANGED <<db, txIns, txDel, txGap, local>>
    /\ UNCHANGED <<impl, uploads, criteriaOps>>

\* await prisma.team.findUnique({ where: { teamName } })
FindTeam(r) ==
    /\ pc[r] = "findTeam"
    /\ \/ IF \E t \in db["Team"] : t.teamName = body[r].teamName
          THEN Reject(r, "Team name already exists", HttpStatus.CONFLICT)
          ELSE /\ Goto(r, "teamCreate")
               /\ UNCHANGED <<db, txIns, txDel, txGap, body, local>>
       \/ RegisterThrow(r, StoreFailure("findTeam"))
    /\ UNCHANGED <<impl, uploads, criteriaOps>>

\* await tx.team.create({ data: { teamName, theme, members, ... } })
TxTeamCreate(r) ==
    /\ pc[r] = "teamCreate"
    /\ \/ /\ Blockers(r) = {}
          /\ IF TeamNameTaken(r, body[r].teamName)
             THEN RegisterThrow(r, P2002("Team_teamName_key", "teamCreate"))
             ELSE /\ Write(TeamCreateClient, r,
                           IF impl = "participant" THEN TeamCreate(r, body[r])
                           ELSE TeamCreateUpload(r, body[r]), NoRows)
                  /\ Goto(r, "userCreate")
                  /\ UNCHANGED <<txGap, body, local>>
       \/ RegisterThrow(r, StoreFailure("teamCreate"))
    /\ UNCHANGED <<impl, uploads, criteriaOps>>

\* await tx.user.create({ data: { name, email, password, role, teamId } })
TxUserCreate(r) ==
    /\ pc[r] = "userCreate"
    /\ \/ /\ Blockers(r) = {}
          /\ IF EmailTaken(r, TeamLeader(body[r].members).email)
             THEN RegisterThrow(r, P2002("User_email_key", "userCreate"))
             ELSE /\ Write(UserCreateClient, r, UserCreate(r, body[r]), NoRows)
                  /\ Goto(r, "commit")
                  /\ UNCHANGED <<txGap, body, local>>
       \/ RegisterThrow(r, StoreFailure("userCreate"))
    /\ UNCHANGED <<impl, uploads, criteriaOps>>

\* the transaction callback returned newTeam: COMMIT, then sendSuccess
RegisterCommit(r) ==
    /\ pc[r] = "commit"
    /\ body[r].kind = "registerTeam"
    /\ \/ /\ Commit(r)
          /\ Answer(r, sendSuccess(<<r, body[r].teamName>>,
                                   "Team registered successfully",
                                   HttpStatus.CREATED))
          /\ thrown' = thrown
       \/ RegisterThrow(r, StoreFailure("commit"))
    /\ UNCHANGED <<impl, uploads, criteriaOps>>

----------------------------------------------------------------------------
(* submitEvaluation *)

\* the scores deleted through the global handle, outside the transaction
DeleteScoresClientGlobal == "prisma"

\* the handle submitEvaluation deletes the old scores through
DeleteScoresClient == "tx"

\* the evaluation updated through the global handle, outside the transaction
UpdateEvaluationClientGlobal == "prisma"

\* the handle submitEvaluation updates the evaluation through
UpdateEvaluationClient == "tx"

CreateEvaluationClient == "tx"

CreateScoresClient == "tx"

\* the catch block of submitEvaluation
SubmitCatch(error) ==
    sendError("Failed to submit evaluation", HttpStatus.INTERNAL_SERVER_ERROR)

\* an exception reaches the catch block of submitEvaluation
SubmitThrow(r, error) ==
    /\ Rollback(r)
    /\ thrown' = [thrown EXCEPT ![r] = error]
    /\ Answer(r, SubmitCatch(error))

\* POST /evaluator/evaluate arrives with a body of `bodies`; runs to the first await
SubmitEvaluation(r, bodies) ==
    /\ Arrives(r)
    /\ \E b \in bodies :
         IF b.submissionId = ""
         THEN Reject(r, "Invalid evaluation data", HttpStatus.BAD_REQUEST)
         ELSE /\ Goto(r, "findCriteria")
              /\ body' = [body EXCEPT ![r] = b]
              /\ UNCHANGED <<db, txIns, txDel, txGap, local>>
    /\ UNCHANGED <<impl, uploads, criteriaOps>>

\* await prisma.evaluationCriteria.findMany(), then the total
FindCriteria(r) ==
    /\ pc[r] = "findCriteria"
    /\ \/ /\ local' = [local EXCEPT
                ![r].criteria = db["EvaluationCriteria"],
                ![r].totalScore = TotalScore(db["EvaluationCriteria"], body[r].scores)]
          /\ Goto(r, "findEvaluation")
          /\ UNCHANGED <<db, txIns, txDel, txGap, body>>
       \/ SubmitThrow(r, StoreFailure("findCriteria"))
    /\ UNCHANGED <<impl, uploads, criteriaOps>>

\* await tx.evaluation.findUnique({ where: { submissionId_evaluatorId } })
TxFindEvaluation(r) ==
    /\ pc[r] = "findEvaluation"
    /\ \/ LET found == EvaluationOf(db["Evaluation"], body[r].submissionId,
                                    body[r].userId)
          IN /\ local' = [local EXCEPT ![r].existingEvaluation = found]
             /\ Goto(r, IF found # {} THEN "deleteScores" ELSE "createEvaluation")
             /\ UNCHANGED <<db, txIns, txDel, txGap, body>>
       \/ SubmitThrow(r, StoreFailure("findEvaluation"))
    /\ UNCHANGED <<impl, uploads, criteriaOps>>

\* a deleteMany whose filter matches no row
DeleteNoScores(r) == {}

\* a deleteMany without a filter
DeleteEveryScore(r) == View(r)["EvaluationScore"]

\* the rows deleteMany({ where: { evaluationId: existingEvaluation.id } }) matches
DeleteManyScores(r) ==
    ScoresOf(View(r)["EvaluationScore"], IdOf(local[r].existingEvaluation))

\* await tx.evaluationScore.deleteMany({ where: { evaluationId } })
TxDeleteScores(r) ==
    /\ pc[r] = "deleteScores"
    /\ \/ /\ Blockers(r) = {}
          /\ Write(DeleteScoresClient, r, NoRows,
                   Rows("EvaluationScore", DeleteManyScores(r)))
          /\ txGap' = [txGap EXCEPT ![r] = @ \cup {IdOf(local[r].existingEvaluation)}]
          /\ Goto(r, "updateEvaluation")
          /\ UNCHANGED <<body, local>>
       \/ SubmitThrow(r, StoreFailure("deleteScores"))
    /\ UNCHANGED <<impl, uploads, criteriaOps>>

\* await tx.evaluation.update({ where: { id }, data: { totalScore, comments } })
TxUpdateEvaluation(r) ==
    /\ pc[r] = "updateEvaluation"
    /\ \/ /\ Blockers(r) = {}
          /\ Write(UpdateEvaluationClient, r,
                   Rows("Evaluation",
                        {EvaluationRow(IdOf(local[r].existingEvaluation), r)}),
                   Rows("Evaluation",
                        {e \in View(r)["Evaluation"] :
                            e.id = IdOf(local[r].existingEvaluation)}))
          /\ local' = [local EXCEPT
                         ![r].evaluationRecord = IdOf(local[r].existingEvaluation)]
          /\ Goto(r, "createScores")
          /\ UNCHANGED <<txGap, body>>
       \/ SubmitThrow(r, StoreFailure("updateEvaluation"))
    /\ UNCHANGED <<impl, uploads, criteriaOps>>

\* await tx.evaluation.create({ data: { submissionId, evaluatorId, ... } })
TxCreateEvaluation(r) ==
    /\ pc[r] = "createEvaluation"
    /\ \/ /\ Blockers(r) = {}
          /\ IF EvaluationPairTaken(r, body[r].submissionId, body[r].userId)
             THEN SubmitThrow(r, P2002("Evaluation_submissionId_evaluatorId_key",
                                       "createEvaluation"))
             ELSE IF ~\E s \in db["Submission"] : s.id = body[r].submissionId
             THEN SubmitThrow(r, P2003("Evaluation_submissionId_fkey",
                                       "createEvaluation"))
             ELSE /\ Write(CreateEvaluationClient, r,
                           Rows("Evaluation", {EvaluationRow(r, r)}), NoRows)
                  /\ local' = [local EXCEPT ![r].evaluationRecord = r]
                  /\ Goto(r, "createScores")
                  /\ UNCHANGED <<txGap, body>>
       \/ SubmitThrow(r, StoreFailure("createEvaluation"))
    /\ UNCHANGED <<impl, uploads, criteriaOps>>

\* await tx.evaluationScore.createMany({ data: scores.map(...) })
TxCreateScores(r) ==
    /\ pc[r] = "createScores"
    /\ \/ /\ Blockers(r) = {}
          /\ LET scores == body[r].scores
                 id == local[r].evaluationRecord
             IN IF \/ \E i, j \in 1..Len(scores) :
                         i # j /\ scores[i].criteriaId = scores[j].criteriaId
                   \/ \E i \in 1..Len(scores) :
                         \E s \in ScoresOf(View(r)["EvaluationScore"], id) :
                            s.criteriaId = scores[i].criteriaId
                THEN SubmitThrow(r, P2002("EvaluationScore_evaluationId_criteriaId_key",
                                          "createScores"))
                ELSE IF \E i \in 1..Len(scores) :
                          CriteriaFind(db["EvaluationCriteria"],
                                       scores[i].criteriaId) = {}
                THEN SubmitThrow(r, P2003("EvaluationScore_criteriaId_fkey",
                                          "createScores"))
                ELSE /\ Write(CreateScoresClient, r,
                              Rows("EvaluationScore", ScoreRows(r, id, scores)),
                              NoRows)
                     /\ Goto(r, "commit")
                     /\ UNCHANGED <<txGap, body, local>>
       \/ SubmitThrow(r, StoreFailure("createScores"))
    /\ UNCHANGED <<impl, uploads, criteriaOps>>

\* the transaction callback returned evaluationRecord: COMMIT, then sendSuccess
SubmitCommit(r) ==
    /\ pc[r] = "commit"
    /\ body[r].kind = "submitEvaluation"
    /\ \/ /\ Commit(r)
          /\ Answer(r, sendSuccess(<<local[r].evaluationRecord, local[r].totalScore>>,
                                   "Evaluation submitted successfully",
                                   HttpStatus.OK))
          /\ thrown' = thrown
       \/ SubmitThrow(r, StoreFailure("commit"))
    /\ UNCHANGED <<impl, uploads, criteriaOps>>

\* InnoDB finds r in a cycle of lock waits and rolls its transaction back
DeadlockVictim(r) ==
    /\ Deadlocked(r)
    /\ SubmitThrow(r, P2034(pc[r]))
    /\ UNCHANGED <<impl, uploads, criteriaOps>>

----------------------------------------------------------------------------
(* The criteria table: createEvaluationCriteria, updateEvaluationCriteria,  *)
(* deleteEvaluationCriteria.  Each is one statement on the global client.  *)

\* the ids the store hands to new criteria, in order
NewCriteriaIds == <<"C", "D", "E">>

CriteriaIds == {"A", "B", "C"}

Weightages == {40}

Criterion(id, weightage) == [id |-> id, weightage |-> weightage]

\* a foreign key whose check takes no lock on the parent row
CriteriaNeverLocked(id) == FALSE

\* FOREIGN KEY EvaluationScore_criteriaId_fkey: an open transaction that wrote a
\* score holds a shared lock on the criterion the score names
CriteriaLocked(id) ==
    \E q \in Requests : \E s \in txIns[q]["EvaluationScore"] : s.criteriaId = id

\* the criteria the store has handed an id to
Created ==
    Cardinality({i \in 1..Len(NewCriteriaIds) :
                   CriteriaFind(db["EvaluationCriteria"], NewCriteriaIds[i]) # {}})

CriteriaCall ==
    /\ criteriaOps < MaxCriteriaOps
    /\ criteriaOps' = criteriaOps + 1
    /\ UNCHANGED <<txIns, txDel, txGap, impl, pc, body, uploads, local, thrown, res>>

\* prisma.evaluationCriteria.create({ data: { criteria, weightage, description } })
createEvaluationCriteria ==
    /\ CriteriaCall
    /\ Created < Len(NewCriteriaIds)
    /\ \E weightage \in Weightages :
         db' = [db EXCEPT !["EvaluationCriteria"] =
                  @ \cup {Criterion(NewCriteriaIds[Created + 1], weightage)}]

\* prisma.evaluationCriteria.update({ where: { id }, data }); P2025 is a 404
updateEvaluationCriteria ==
    /\ CriteriaCall
    /\ \E id \in CriteriaIds : \E weightage \in Weightages :
         /\ ~CriteriaLocked(id)
         /\ IF CriteriaFind(db["EvaluationCriteria"], id) = {}
            THEN db' = db
            ELSE db' = [db EXCEPT !["EvaluationCriteria"] =
                          (@ \ CriteriaFind(@, id)) \cup {Criterion(id, weightage)}]

\* prisma.evaluationCriteria.delete({ where: { id } }); P2025 is a 404, the
\* P2003 of ON DELETE RESTRICT a 500
deleteEvaluationCriteria ==
    /\ CriteriaCall
    /\ \E id \in CriteriaIds :
         /\ ~CriteriaLocked(id)
         /\ IF \/ CriteriaFind(db["EvaluationCriteria"], id) = {}
               \/ \E s \in db["EvaluationScore"] : s.criteriaId = id
            THEN db' = db
            ELSE db' = [db EXCEPT !["EvaluationCriteria"] = @ \ CriteriaFind(@, id)]

----------------------------------------------------------------------------
(* The user table: addUser, editUser, deleteUser, resetUserPassword of      *)
(* admin.handler.ts.  Each writes with one statement on the global client. *)

\* the bodies of addUser; the handler reads name, email, password and role,
\* whatever else the body holds (here a teamId, NoTeam when left out)
AddUserBodies ==
    [name : {"Judge"}, email : {"lead1@ieee.org"},
     password : {"secret"}, role : {"evaluator"}, teamId : {NoTeam, 1}]

\* the ids the store hands to the users addUser creates
AddedUserId(email) == MaxReq + 1

\* addUser stores the teamId of its body
addUserTeamIdOfBody(b) == b.teamId

\* data: { name, email, password: hashedPassword, role }: teamId stays NULL
addUserTeamId(b) == NoTeam

\* the fields editUser may change; undefined leaves a field alone
EditNames == {Undefined, "Renamed"}

EditRoles == {Undefined, "evaluator"}

\* an uncommitted insert of the email holds the lock of its index entry
EmailLocked(email) ==
    \E q \in Requests : \E u \in txIns[q]["User"] : u.email = email

AdminStatement ==
    UNCHANGED <<txIns, txDel, txGap, impl, pc, body, uploads, local, thrown, res,
                criteriaOps>>

\* prisma.user.findUnique({ where: { email } }), then prisma.user.create; an
\* email that is taken is a 409, or the P2002 of User_email_key a 500
addUser ==
    /\ AdminStatement
    /\ \E b \in AddUserBodies :
         /\ ~EmailLocked(b.email)
         /\ IF \E u \in db["User"] : u.email = b.email
            THEN db' = db
            ELSE db' = [db EXCEPT !["User"] =
                          @ \cup {[id |-> AddedUserId(b.email), name |-> b.name,
                                   email |-> b.email,
                                   password |-> hashPassword(b.password),
                                   role |-> b.role, teamId |-> addUserTeamId(b),
                                   deleted |-> FALSE]}]

\* prisma.user.update({ where: { id }, data: updateData }); no field is a 400
editUser ==
    /\ AdminStatement
    /\ \E u \in db["User"] : \E name \in EditNames : \E role \in EditRoles :
         IF name = Undefined /\ role = Undefined
         THEN db' = db
         ELSE db' = [db EXCEPT !["User"] =
                       (@ \ {u}) \cup
                       {[u EXCEPT !.name = IF name = Undefined THEN @ ELSE name,
                                  !.role = IF role = Undefined THEN @ ELSE role]}]

\* data: { deleted: true, updatedAt: new Date() }
SoftDelete(u) == [u EXCEPT !.deleted = TRUE]

\* prisma.user.update({ where: { id }, data: { deleted: true } })
deleteUser ==
    /\ AdminStatement
    /\ \E u \in db["User"] :
         db' = [db EXCEPT !["User"] = (@ \ {u}) \cup {SoftDelete(u)}]

\* prisma.user.update({ where: { id }, data: { password: hashedPassword } })
resetUserPassword ==
    /\ AdminStatement
    /\ \E u \in db["User"] :
         db' = [db EXCEPT !["User"] =
                  (@ \ {u}) \cup {[u EXCEPT !.password = hashPassword("hackathon@123")]}]

----------------------------------------------------------------------------
(* deleteUser of admin.handler.ts and login of auth.handler.ts, request by  *)
(* request *)

\* a body without an id
NoId == 0

\* the ids DELETE /admin/deleteUser is called with: none, the leader of team
\* 1, an id no user has
DeleteUserBodies == [kind : {"deleteUser"}, id : {NoId, 1, MaxReq + 2}]

LoginBodies ==
    [kind : {"login"}, email : {"lead1@ieee.org", "nobody@ieee.org"},
     password : {"qwert123", "wrong"}]

\* the responses of deleteUser and login leave the request on record
AuthRespond(r, response) ==
    /\ Respond(r, response)
    /\ body' = body
    /\ thrown' = thrown

\* an exception reaches the catch block
AuthThrow(r, error, message) ==
    /\ thrown' = [thrown EXCEPT ![r] = error]
    /\ Respond(r, sendError(message, HttpStatus.INTERNAL_SERVER_ERROR))
    /\ body' = body
    /\ db' = db

\* DELETE /admin/deleteUser arrives; runs to the first await
DeleteUser(r, bodies) ==
    /\ Arrives(r)
    /\ \E b \in bodies :
         /\ body' = [body EXCEPT ![r] = b]
         /\ IF b.id = NoId
            THEN /\ Respond(r, sendError("ID is required", HttpStatus.BAD_REQUEST))
                 /\ thrown' = thrown
            ELSE /\ Goto(r, "userUpdate")
                 /\ local' = local
    /\ UNCHANGED <<db, txIns, txDel, txGap, impl, uploads, criteriaOps>>

\* await prisma.user.update({ where: { id }, data: { deleted: true } }); no
\* row with the id is the P2025 the catch block answers with 404
UserUpdate(r) ==
    /\ pc[r] = "userUpdate"
    /\ \/ LET user == {u \in db["User"] : u.id = body[r].id} IN
          IF user = {}
          THEN /\ thrown' = [thrown EXCEPT ![r] =
                                [code |-> "P2025", target |-> "", at |-> "userUpdate"]]
               /\ Respond(r, sendError("User not found", HttpStatus.NOT_FOUND))
               /\ body' = body
               /\ db' = db
          ELSE /\ db' = [db EXCEPT !["User"] =
                           (@ \ user) \cup {SoftDelete(u) : u \in user}]
               /\ AuthRespond(r, sendSuccess(<<>>, "User deleted successfully",
                                             HttpStatus.OK))
       \/ AuthThrow(r, StoreFailure("userUpdate"), "Failed to delete user")
    /\ UNCHANGED <<txIns, txDel, txGap, impl, uploads, criteriaOps>>

\* every user with the email, deleted or not
LoginFindAny(users, email) == {u \in users : u.email = email}

\* prisma.user.findFirst({ where: { email, deleted: false } })
LoginFind(users, email) == {u \in users : u.email = email /\ ~u.deleted}

\* POST /auth/login arrives; runs to the first await
Login(r, bodies) ==
    /\ Arrives(r)
    /\ \E b \in bodies : body' = [body EXCEPT ![r] = b]
    /\ Goto(r, "findFirst")
    /\ UNCHANGED <<db, txIns, txDel, txGap, impl, uploads, local, criteriaOps>>

\* await prisma.user.findFirst, then await comparePassword
FindFirst(r) ==
    /\ pc[r] = "findFirst"
    /\ \/ LET user == LoginFind(db["User"], body[r].email) IN
          IF \/ user = {}
             \/ \E u \in user : ~comparePassword(body[r].password, u.password)
          THEN AuthRespond(r, sendError("Invalid email or password",
                                       HttpStatus.UNAUTHORIZED))
          ELSE /\ Goto(r, "lastLogin")
               /\ local' = [local EXCEPT ![r].user = user]
               /\ body' = body
       \/ /\ AuthThrow(r, StoreFailure("findFirst"), "Login failed")
    /\ UNCHANGED <<db, txIns, txDel, txGap, impl, uploads, criteriaOps>>

\* await prisma.user.update({ where: { id }, data: { lastLogin } }), then the
\* token and the cookies
LastLogin(r) ==
    /\ pc[r] = "lastLogin"
    /\ \/ /\ AuthRespond(r, sendSuccess(IdOf(local[r].user), "Login successful",
                                         HttpStatus.OK))
          /\ db' = db
       \/ AuthThrow(r, StoreFailure("lastLogin"), "Login failed")
    /\ UNCHANGED <<txIns, txDel, txGap, impl, uploads, criteriaOps>>

----------------------------------------------------------------------------
(* createOrUpdateSubmission of participant.handler.ts *)

SubmissionFields ==
    {"title", "tagline", "description", "problemStatement", "demoVideoUrl",
     "liveLinkUrl", "codeRepoUrl", "pptUrl"}

\* what a client sends for a field; Undefined when it leaves the field out
SubmissionValues(f) ==
    CASE f = "title" -> {Undefined, "Rover", "Rover 2"}
      [] f = "tagline" -> {Undefined, "Fast"}
      [] f = "pptUrl" -> {Undefined, "https://slides/rover"}
      [] OTHER -> {Undefined}

\* the user of the token: the leader of team 1, or a user without a team
SubmissionUsers == {1, MaxReq + 1}

SubmissionBodies ==
    {[kind |-> "submission", authenticated |-> a, userId |-> u, fields |-> f] :
        a \in BOOLEAN, u \in SubmissionUsers,
        f \in {g \in [SubmissionFields -> {Undefined, "Rover", "Rover 2", "Fast",
                                             "https://slides/rover"}] :
                  \A x \in SubmissionFields : g[x] \in SubmissionValues(x)}}

\* create: { teamId, title, ... }: a field left undefined is stored as NULL
SubmissionCreate(id, teamId, fields) ==
    [x \in SubmissionFields \cup {"id", "teamId"} |->
        IF x = "id" THEN id
        ELSE IF x = "teamId" THEN teamId
        ELSE IF fields[x] = Undefined THEN Null ELSE fields[x]]

\* update: { title, ... }: Prisma leaves a column alone whose value is undefined
SubmissionUpdate(row, fields) ==
    [x \in DOMAIN row |->
        IF x \in SubmissionFields /\ fields[x] # Undefined THEN fields[x]
        ELSE row[x]]

SubmissionOfTeam(rows, teamId) == {s \in rows : s["teamId"] = teamId}

\* the responses of createOrUpdateSubmission leave the request on record
SubmissionRespond(r, response) ==
    /\ Respond(r, response)
    /\ body' = body

\* an exception reaches the catch block of createOrUpdateSubmission
SubmissionThrow(r, error) ==
    /\ thrown' = [thrown EXCEPT ![r] = error]
    /\ SubmissionRespond(r, sendError("Failed to save submission",
                                      HttpStatus.INTERNAL_SERVER_ERROR))
    /\ db' = db

\* POST /participant/submission arrives; runs to the first await
CreateOrUpdateSubmission(r, bodies) ==
    /\ Arrives(r)
    /\ \E b \in bodies :
         /\ body' = [body EXCEPT ![r] = b]
         /\ IF ~b.authenticated
            THEN /\ Respond(r, sendError("User not authenticated",
                                         HttpStatus.UNAUTHORIZED))
                 /\ thrown' = thrown
            ELSE /\ Goto(r, "findUser")
                 /\ local' = local
    /\ UNCHANGED <<db, txIns, txDel, txGap, impl, uploads, criteriaOps>>

\* await prisma.user.findUnique({ where: { id }, select: { teamId: true } })
FindUser(r) ==
    /\ pc[r] = "findUser"
    /\ \/ LET user == {u \in db["User"] : u.id = body[r].userId} IN
          IF \A u \in user : u.teamId = NoTeam
          THEN /\ SubmissionRespond(r, sendError("No team associated with this user",
                                                 HttpStatus.NOT_FOUND))
               /\ thrown' = thrown
          ELSE /\ Goto(r, "upsertFind")
               /\ local' = [local EXCEPT ![r].teamId =
                               (CHOOSE u \in user : TRUE).teamId]
               /\ body' = body
       \/ SubmissionThrow(r, StoreFailure("findUser"))
    /\ UNCHANGED <<db, txIns, txDel, txGap, impl, uploads, criteriaOps>>

\* prisma.submission.upsert, first statement: SELECT ... WHERE teamId = ?
UpsertFind(r) ==
    /\ pc[r] = "upsertFind"
    /\ \/ /\ Goto(r, "upsertWrite")
          /\ local' = [local EXCEPT ![r].existingSubmission =
                          SubmissionOfTeam(db["Submission"], local[r].teamId)]
          /\ body' = body
       \/ SubmissionThrow(r, StoreFailure("upsertFind"))
    /\ UNCHANGED <<db, txIns, txDel, txGap, impl, uploads, criteriaOps>>

\* prisma.submission.upsert, second statement: UPDATE the row found, or INSERT
\* one, which UNIQUE INDEX Submission_teamId_key may refuse
UpsertWrite(r) ==
    /\ pc[r] = "upsertWrite"
    /\ \/ IF local[r].existingSubmission # {}
          THEN /\ db' = [db EXCEPT !["Submission"] =
                           {IF s["id"] = IdOf(local[r].existingSubmission)
                            THEN SubmissionUpdate(s, body[r].fields) ELSE s : s \in @}]
               /\ SubmissionRespond(r, sendSuccess(<<>>, "Submission saved successfully",
                                                   HttpStatus.OK))
               /\ thrown' = thrown
          ELSE IF SubmissionOfTeam(db["Submission"], local[r].teamId) # {}
               THEN SubmissionThrow(r, P2002("Submission_teamId_key", "upsertWrite"))
               ELSE /\ db' = [db EXCEPT !["Submission"] =
                                @ \cup {SubmissionCreate(r, local[r].teamId,
                                                         body[r].fields)}]
                    /\ SubmissionRespond(r, sendSuccess(<<>>,
                                            "Submission saved successfully",
                                            HttpStatus.OK))
                    /\ thrown' = thrown
       \/ SubmissionThrow(r, StoreFailure("upsertWrite"))
    /\ UNCHANGED <<txIns, txDel, txGap, impl, uploads, criteriaOps>>

----------------------------------------------------------------------------
(* updateDeadlines of coordinator.handler.ts *)

\* two of the six dates of the body; the handler treats the six alike
DeadlineFields == {"registrationStart", "submissionDeadline"}

DeadlineValues == {Undefined, "2026-03-01", "2026-04-01"}

DeadlineBodies == [kind : {"updateDeadlines"}, fields : [DeadlineFields -> DeadlineValues]]

\* new Date(value); new Date(undefined) is the Invalid Date
Date(value) == IF value = Undefined THEN <<"Invalid Date">> ELSE <<"Date", value>>

\* create: { registrationStart: new Date(registrationStart), ... }
DeadlineCreate(id, fields) ==
    [id |-> id, dates |-> [x \in DeadlineFields |-> Date(fields[x])]]

\* update: { registrationStart: registrationStart ? new Date(...) : undefined,
\* ... }; Prisma leaves a column alone whose value is undefined
DeadlineUpdate(row, fields) ==
    [row EXCEPT !.dates = [x \in DeadlineFields |->
                             IF Truthy(fields[x]) THEN Date(fields[x]) ELSE @[x]]]

\* PUT /coordinator/deadlines arrives; runs to the first await
UpdateDeadlines(r, bodies) ==
    /\ Arrives(r)
    /\ \E b \in bodies : body' = [body EXCEPT ![r] = b]
    /\ Goto(r, "deadlineFind")
    /\ UNCHANGED <<db, txIns, txDel, txGap, impl, uploads, local, criteriaOps>>

\* an exception reaches the catch block of updateDeadlines
DeadlineThrow(r, error) ==
    /\ thrown' = [thrown EXCEPT ![r] = error]
    /\ Respond(r, sendError("Failed to update deadlines",
                            HttpStatus.INTERNAL_SERVER_ERROR))
    /\ UNCHANGED <<db, body>>

\* await prisma.deadline.findFirst(): without an orderBy, any row of the table
DeadlineFindFirst(r) ==
    /\ pc[r] = "deadlineFind"
    /\ \/ /\ \E found \in {f \in SUBSET db["Deadline"] :
                              IF db["Deadline"] = {} THEN f = {}
                              ELSE Cardinality(f) = 1} :
               local' = [local EXCEPT ![r].existingDeadline = found]
          /\ Goto(r, "deadlineWrite")
          /\ UNCHANGED <<db, body>>
       \/ DeadlineThrow(r, StoreFailure("deadlineFind"))
    /\ UNCHANGED <<txIns, txDel, txGap, impl, uploads, criteriaOps>>

\* await prisma.deadline.update or await prisma.deadline.create, then
\* sendSuccess; Prisma refuses to write an Invalid Date
DeadlineWrite(r) ==
    /\ pc[r] = "deadlineWrite"
    /\ \/ IF local[r].existingDeadline # {}
          THEN LET rows == {d \in db["Deadline"] :
                              d.id = IdOf(local[r].existingDeadline)}
               IN /\ db' = [db EXCEPT !["Deadline"] =
                              (@ \ rows) \cup {DeadlineUpdate(d, body[r].fields) :
                                                  d \in rows}]
                  /\ Respond(r, sendSuccess(IdOf(local[r].existingDeadline),
                                            "Deadlines updated successfully",
                                            HttpStatus.OK))
                  /\ UNCHANGED <<body, thrown>>
          ELSE IF \E x \in DeadlineFields : body[r].fields[x] = Undefined
          THEN DeadlineThrow(r, [code |-> "P2009", target |-> "",
                                 at |-> "deadlineWrite"])
          ELSE /\ db' = [db EXCEPT !["Deadline"] =
                           @ \cup {DeadlineCreate(r, body[r].fields)}]
               /\ Respond(r, sendSuccess(r, "Deadlines updated successfully",
                                         HttpStatus.OK))
               /\ UNCHANGED <<body, thrown>>
       \/ DeadlineThrow(r, StoreFailure("deadlineWrite"))
    /\ UNCHANGED <<txIns, txDel, txGap, impl, uploads, criteriaOps>>

----------------------------------------------------------------------------
(* Specifications *)

InitRequests ==
    /\ txIns = [r \in Requests |-> NoRows]
    /\ txDel = [r \in Requests |-> NoRows]
    /\ txGap = [r \in Requests |-> {}]
    /\ pc = [r \in Requests |-> "idle"]
    /\ body = [r \in Requests |-> NoBody]
    /\ uploads = [r \in Requests |-> <<>>]
    /\ local = [r \in Requests |-> NoLocal]
    /\ thrown = [r \in Requests |-> NoError]
    /\ res = [r \in Requests |-> NoRes]
    /\ criteriaOps = 0

\* an empty store, one of the two registerTeam implementations deployed
InitRegister ==
    /\ db = NoRows
    /\ impl \in {"participant", "upload"}
    /\ InitRequests

NextRegister ==
    \E r \in Requests :
       \/ RegisterTeam(r, RegisterBodies)
       \/ UploadCallback(r)
       \/ AwaitUploads(r)
       \/ FindTeam(r)
       \/ TxTeamCreate(r)
       \/ TxUserCreate(r)
       \/ RegisterCommit(r)

\* registration: any number of registerTeam requests against an empty store
SpecRegister == InitRegister /\ [][NextRegister]_vars

\* the body of the registration that precedes the evaluations
FirstTeam ==
    [kind |-> "registerTeam", teamName |-> "Falcons", theme |-> "Smart Cities",
     members |-> EligibleRoster("lead1@ieee.org", "Yes"), files |-> {},
     facultyMentor |-> [name |-> "Mentor", facultyId |-> "F1"],
     communityRepresentative |-> [name |-> "Rep", affiliation |-> "NGO"]]

\* the criteria of scenario B
FirstCriteria == {Criterion("A", 60), Criterion("B", 40)}

\* the score lists evaluator1 may have submitted before the behaviour starts
FirstScoreLists == { <<>>, <<Score("A", 80), Score("B", 70)>> }

\* the store of scenario B: team 0 is registered and has saved submission s1,
\* the criteria are A with weight 60 and B with weight 40; evaluator1 has
\* evaluated s1 already (Evaluation 0) or nobody has
InitEvaluate ==
    /\ \/ db = [Merge(TeamCreate(0, FirstTeam), UserCreate(0, FirstTeam)) EXCEPT
                  !["Submission"] = {[id |-> "s1", teamId |-> 0, title |-> "Demo"]},
                  !["EvaluationCriteria"] = FirstCriteria]
       \/ \E scores \in FirstScoreLists :
            db = [Merge(TeamCreate(0, FirstTeam), UserCreate(0, FirstTeam)) EXCEPT
                  !["Submission"] = {[id |-> "s1", teamId |-> 0, title |-> "Demo"]},
                  !["EvaluationCriteria"] = FirstCriteria,
                  !["Evaluation"] =
                      {[id |-> 0, submissionId |-> "s1", evaluatorId |-> "evaluator1",
                        totalScore |-> TotalScore(FirstCriteria, scores),
                        comments |-> "solid"]},
                  !["EvaluationScore"] = ScoreRows(0, 0, scores)]
    /\ impl = "participant"
    /\ InitRequests

NextEvaluate ==
    \/ \E r \in Requests :
          \/ SubmitEvaluation(r, EvaluationBodies)
          \/ FindCriteria(r)
          \/ TxFindEvaluation(r)
          \/ TxDeleteScores(r)
          \/ TxUpdateEvaluation(r)
          \/ TxCreateEvaluation(r)
          \/ TxCreateScores(r)
          \/ SubmitCommit(r)
          \/ DeadlockVictim(r)
    \/ createEvaluationCriteria
    \/ updateEvaluationCriteria
    \/ deleteEvaluationCriteria

\* evaluation: submitEvaluation requests and criteria changes in any interleaving
SpecEvaluate == InitEvaluate /\ [][NextEvaluate]_vars

\* an empty store: no deadline is set yet
InitDeadline ==
    /\ db = NoRows
    /\ impl = "participant"
    /\ InitRequests

NextDeadline ==
    \E r \in Requests :
       \/ UpdateDeadlines(r, DeadlineBodies)
       \/ DeadlineFindFirst(r)
       \/ DeadlineWrite(r)

\* updateDeadlines calls in any interleaving
SpecDeadline == InitDeadline /\ [][NextDeadline]_vars

\* one registration with or without a file, one evaluation of two scores
AnswerBodies ==
    {b \in RegisterBodies :
        /\ b.teamName = "Eagles"
        /\ b.members = EligibleRoster("lead2@ieee.org", "true")}
    \cup
    {b \in EvaluationBodies :
        /\ b.userId = "evaluator1"
        /\ b.scores = <<Score("A", 80), Score("B", 70)>>}

\* the store of scenario B under the registerTeam that uploads
InitAnswer ==
    /\ \E scores \in FirstScoreLists :
         db = [Merge(TeamCreate(0, FirstTeam), UserCreate(0, FirstTeam)) EXCEPT
                 !["Submission"] = {[id |-> "s1", teamId |-> 0, title |-> "Demo"]},
                 !["EvaluationCriteria"] = FirstCriteria,
                 !["Evaluation"] =
                     {[id |-> 0, submissionId |-> "s1", evaluatorId |-> "evaluator1",
                       totalScore |-> TotalScore(FirstCriteria, scores),
                       comments |-> "solid"]},
                 !["EvaluationScore"] = ScoreRows(0, 0, scores)]
    /\ impl = "upload"
    /\ InitRequests

NextAnswer ==
    \E r \in Requests :
       \/ RegisterTeam(r, {b \in AnswerBodies : b.kind = "registerTeam"})
       \/ UploadCallback(r)
       \/ AwaitUploads(r)
       \/ FindTeam(r)
       \/ TxTeamCreate(r)
       \/ TxUserCreate(r)
       \/ RegisterCommit(r)
       \/ SubmitEvaluation(r, {b \in AnswerBodies : b.kind = "submitEvaluation"})
       \/ FindCriteria(r)
       \/ TxFindEvaluation(r)
       \/ TxDeleteScores(r)
       \/ TxUpdateEvaluation(r)
       \/ TxCreateScores(r)
       \/ SubmitCommit(r)

\* the event loop runs the continuation of a promise that has settled: the
\* await of Promise.all goes on once the uploads have called back.  Whether
\* Cloudinary or the store ever calls back is not the handler's to decide,
\* and no handler arms a timer for it, so these steps carry no fairness
FairAnswer == \A r \in Requests : WF_vars(AwaitUploads(r))

\* registrations and evaluations, fairly scheduled
SpecAnswer == InitAnswer /\ [][NextAnswer]_vars /\ FairAnswer

\* the evaluators submit for the submissions s1 and s2, two scores or one
PairBodies ==
    [kind : {"submitEvaluation"}, userId : Evaluators, submissionId : {"s1", "s2"},
     scores : {<<Score("A", 80), Score("B", 70)>>, <<Score("A", 70)>>},
     comments : {"revised"}]

\* the second registered team
SecondTeam ==
    [FirstTeam EXCEPT !.teamName = "Eagles",
                      !.members = EligibleRoster("lead2@ieee.org", "Yes")]

\* the id of the Evaluation of evaluator2 the behaviour starts with
SecondEvaluation == MaxReq + 1

\* teams 0 and 1 have saved the submissions s1 and s2; both evaluators have
\* scored s1 on the two criteria, nobody has scored s2
InitPairs ==
    /\ db = [Merge(Merge(TeamCreate(0, FirstTeam), UserCreate(0, FirstTeam)),
                   Merge(TeamCreate(1, SecondTeam), UserCreate(1, SecondTeam)))
             EXCEPT
               !["Submission"] = {[id |-> "s1", teamId |-> 0, title |-> "Demo"],
                                  [id |-> "s2", teamId |-> 1, title |-> "Rover"]},
               !["EvaluationCriteria"] = FirstCriteria,
               !["Evaluation"] =
                   {[id |-> 0, submissionId |-> "s1", evaluatorId |-> "evaluator1",
                     totalScore |-> TotalScore(FirstCriteria,
                                               <<Score("A", 80), Score("B", 70)>>),
                     comments |-> "solid"],
                    [id |-> SecondEvaluation, submissionId |-> "s1",
                     evaluatorId |-> "evaluator2",
                     totalScore |-> TotalScore(FirstCriteria,
                                               <<Score("A", 70), Score("B", 80)>>),
                     comments |-> "fair"]},
               !["EvaluationScore"] =
                   ScoreRows(0, 0, <<Score("A", 80), Score("B", 70)>>)
                   \cup ScoreRows(SecondEvaluation, SecondEvaluation,
                                  <<Score("A", 70), Score("B", 80)>>)]
    /\ impl = "participant"
    /\ InitRequests

NextPairs ==
    \E r \in Requests :
       \/ SubmitEvaluation(r, PairBodies)
       \/ FindCriteria(r)
       \/ TxFindEvaluation(r)
       \/ TxDeleteScores(r)
       \/ TxUpdateEvaluation(r)
       \/ TxCreateEvaluation(r)
       \/ TxCreateScores(r)
       \/ SubmitCommit(r)

\* submitEvaluation requests of two evaluators for two submissions; the
\* requests take their locks in one order, so none waits in a cycle
SpecPairs == InitPairs /\ [][NextPairs]_vars

\* the weights a criterion may have been created or updated with: weightage is
\* an INTEGER column and no validator guards the criteria routes
AnyWeightages == {0 - 50, 0, 40, 50, 60, 100}

ScoreValues == {70, 80}

\* any table over the criteria A and B
AnyCriteria ==
    { table \in SUBSET [id : {"A", "B"}, weightage : AnyWeightages] :
        \A c, d \in table : c.id = d.id => c = d }

\* any score list of up to MaxScores pairs; criterion C is in no table
AnyScoreLists ==
    UNION { [1..n -> [criteriaId : {"A", "B", "C"}, score : ScoreValues]] :
              n \in 0..MaxScores }

NormalizerBodies ==
    [kind : {"submitEvaluation"}, userId : {"evaluator1"}, submissionId : {"s1"},
     scores : AnyScoreLists, comments : {"revised"}]

InitNormalizer ==
    /\ \E table \in AnyCriteria :
          db = [NoRows EXCEPT !["EvaluationCriteria"] = table]
    /\ impl = "participant"
    /\ InitRequests

NextNormalizer ==
    \E r \in {1} :
       \/ SubmitEvaluation(r, NormalizerBodies)
       \/ FindCriteria(r)

\* the total computation alone: one submitEvaluation, from its arrival to the
\* total it computes, over every criteria table and score list of the bounds
SpecNormalizer == InitNormalizer /\ [][NextNormalizer]_vars

\* the kinds of member a roster is built from: leaders with and without the
\* IEEE flag and number, school students with and without a standard, plain
\* members of both genders
MemberKinds ==
    { Leader("lead1@ieee.org", "Yes", "IEEE123"),
      Leader("lead1@ieee.org", "Yes", Undefined),
      Leader("lead1@ieee.org", Undefined, "IEEE123"),
      Student("Male", "8th"), Student("Male", ""),
      Plain("Male"), Plain("Female") }

\* what fills the positions after the free ones
Paddings ==
    { << Plain("Male"), Plain("Male"), Plain("Male"), Plain("Male"),
         Plain("Male"), Plain("Male") >>,
      << Plain("Male"), Plain("Male"), Plain("Male"), Plain("Male"),
         Plain("Male"), Plain("Female") >>,
      << Plain("Male"), Plain("Male"), Plain("Male"), Plain("Male"),
         Leader("lead1@ieee.org", "Yes", "IEEE123"), Plain("Female") >>,
      << Plain("Male"), Plain("Male"), Plain("Male"), Plain("Male"),
         Student("Male", "8th"), Plain("Female") >> }

\* rosters of 5, 6 and 7 members: every choice of kinds in the free positions,
\* then a padding
AnyRosters ==
    { free \o SubSeq(pad, FreeSlots + 1, 6) \o extra :
        free \in [1..FreeSlots -> MemberKinds], pad \in Paddings,
        extra \in {<<>>, <<Plain("Male")>>} }
    \cup { free \o SubSeq(pad, FreeSlots + 2, 6) :
             free \in [1..FreeSlots -> MemberKinds], pad \in Paddings }

\* the positions of the school students of a roster
StudentSlots(members) == {i \in 1..Len(members) : IsStudent(members[i])}

\* req.files of a request with the roster members: no file, a file for every
\* school student, or a file for every school student but the first
AnyFiles(members) ==
    { {}, StudentSlots(members),
      {i \in StudentSlots(members) : \E j \in StudentSlots(members) : j < i} }

ValidatorBodies ==
    UNION { { [kind |-> "registerTeam", teamName |-> "Falcons",
               theme |-> "Smart Cities", members |-> members, files |-> files,
               facultyMentor |-> [name |-> "Mentor", facultyId |-> "F1"],
               communityRepresentative |-> [name |-> "Rep", affiliation |-> "NGO"]] :
                files \in AnyFiles(members) } : members \in AnyRosters }

InitValidator ==
    /\ db = NoRows
    /\ impl \in {"participant", "upload"}
    /\ InitRequests

NextValidator ==
    \E r \in {1} :
       \/ RegisterTeam(r, ValidatorBodies)
       \/ UploadCallback(r)
       \/ AwaitUploads(r)
       \/ FindTeam(r)
       \/ TxTeamCreate(r)
       \/ TxUserCreate(r)
       \/ RegisterCommit(r)

\* one registerTeam over every roster of the bounds, from its arrival to its
\* response
SpecValidator == InitValidator /\ [][NextValidator]_vars

\* registrations of eligible rosters, with the file of the student's position
\* where the implementation takes files
IdentityBodies ==
    {b \in RegisterBodies :
       /\ b.members \in {EligibleRoster("lead1@ieee.org", "Yes"),
                          EligibleRoster("lead2@ieee.org", "true")}
       /\ b.files = {2}} \cup
    {b \in RegisterBodies :
       /\ b.members \in {EligibleRoster("lead1@ieee.org", "Yes")}
       /\ b.files = {}}

NextIdentity ==
    \/ \E r \in Requests :
          \/ RegisterTeam(r, IdentityBodies)
          \/ UploadCallback(r)
          \/ AwaitUploads(r)
          \/ FindTeam(r)
          \/ TxTeamCreate(r)
          \/ TxUserCreate(r)
          \/ RegisterCommit(r)
    \/ addUser
    \/ editUser
    \/ deleteUser
    \/ resetUserPassword

\* registrations beside the administration of the user table
SpecIdentity == InitRegister /\ [][NextIdentity]_vars

\* team 1 is registered and its leader has the account 1; another account has
\* no team; the team has saved no submission yet, or one with every field
InitSubmission ==
    /\ \E saved \in {{}, {SubmissionCreate(0, 1,
                              [x \in SubmissionFields |->
                                 IF x = "title" THEN "Rover"
                                 ELSE IF x = "tagline" THEN "Fast"
                                 ELSE IF x = "pptUrl" THEN "https://slides/rover"
                                 ELSE Undefined])}} :
         db = [Merge(TeamCreate(1, FirstTeam), UserCreate(1, FirstTeam)) EXCEPT
                 !["User"] = @ \cup {[id |-> MaxReq + 1, name |-> "Judge",
                                      email |-> "judge@ieee.org",
                                      password |-> hashPassword("secret"),
                                      role |-> "participant",
                                      teamId |-> NoTeam, deleted |-> FALSE]},
                 !["Submission"] = saved]
    /\ impl = "participant"
    /\ InitRequests

NextSubmission ==
    \E r \in Requests :
       \/ CreateOrUpdateSubmission(r, SubmissionBodies)
       \/ FindUser(r)
       \/ UpsertFind(r)
       \/ UpsertWrite(r)

\* saves of the submission of one team, by concurrent requests
SpecSubmission == InitSubmission /\ [][NextSubmission]_vars

\* team 1 is registered, its leader has the account 1 and has saved a
\* submission; the account of the leader is still there or deleted already
InitLogin ==
    /\ \E deleted \in BOOLEAN :
         db = [Merge(TeamCreate(1, FirstTeam), UserCreate(1, FirstTeam)) EXCEPT
                 !["User"] = {[u EXCEPT !.deleted = deleted] : u \in @},
                 !["Submission"] =
                     {SubmissionCreate(0, 1, [x \in SubmissionFields |-> Undefined])}]
    /\ impl = "participant"
    /\ InitRequests

NextLogin ==
    \E r \in Requests :
       \/ DeleteUser(r, DeleteUserBodies)
       \/ UserUpdate(r)
       \/ Login(r, LoginBodies)
       \/ FindFirst(r)
       \/ LastLogin(r)

\* deletions of users beside logins
SpecLogin == InitLogin /\ [][NextLogin]_vars

\* registrations with rosters of 5, 6 and 7 members
TeamBodies ==
    {b \in RegisterBodies :
       /\ b.teamName = "Falcons"
       /\ b.members \in {EligibleRoster("lead1@ieee.org", "Yes"),
                          SubSeq(EligibleRoster("lead1@ieee.org", "Yes"), 1, 5)}}
    \cup
    {[b EXCEPT !.members = @ \o <<Plain("Male")>>] :
        b \in {c \in RegisterBodies :
                  /\ c.teamName = "Eagles"
                  /\ c.members = EligibleRoster("lead2@ieee.org", "true")}}

\* the saves of the leader of team 1, with a title or without one
TeamSubmissionBodies ==
    {b \in SubmissionBodies :
       /\ b.authenticated /\ b.userId = 1
       /\ \A x \in SubmissionFields \ {"title"} : b.fields[x] = Undefined}

NextTeam ==
    \/ \E r \in Requests :
          \/ RegisterTeam(r, TeamBodies)
          \/ UploadCallback(r)
          \/ AwaitUploads(r)
          \/ FindTeam(r)
          \/ TxTeamCreate(r)
          \/ TxUserCreate(r)
          \/ RegisterCommit(r)
          \/ CreateOrUpdateSubmission(r, TeamSubmissionBodies)
          \/ FindUser(r)
          \/ UpsertFind(r)
          \/ UpsertWrite(r)
    \/ addUser
    \/ editUser
    \/ deleteUser
    \/ resetUserPassword

\* registrations beside every other operation on users and submissions
SpecTeam == InitRegister /\ [][NextTeam]_vars

----------------------------------------------------------------------------
(* Properties of registerTeam, under SpecRegister *)

\* the rows of table t that belong to team teamId
RowsOfTeam(t, teamId) == {x \in db[t] : x.teamId = teamId}

\* C1: after a successful registerTeam the store holds the whole aggregate of
\* the team: the Team row, its 6 TeamMember rows, 1 FacultyMentor, 1
\* CommunityRepresentative and 1 User whose teamId is the team. The upload
\* variant of registerTeam creates no mentor and no representative, so this
\* is violated.
C1_FullAggregate ==
    /\ \A r \in Requests :
          res[r].status = HttpStatus.CREATED =>
             \E t \in db["Team"] : t.id = res[r].data[1] /\ t.teamName = res[r].data[2]
    /\ \A t \in db["Team"] :
          /\ Cardinality(RowsOfTeam("TeamMember", t.id)) = 6
          /\ Cardinality(RowsOfTeam("FacultyMentor", t.id)) = 1
          /\ Cardinality(RowsOfTeam("CommunityRepresentative", t.id)) = 1
          /\ Cardinality(RowsOfTeam("User", t.id)) = 1

\* the rows request r has created, committed or pending
RowsOfRequest(r) ==
    [t \in Tables |->
       {x \in db[t] \cup txIns[r][t] :
          IF t = "Team" THEN x.id = r
          ELSE IF t \in {"TeamMember", "FacultyMentor", "CommunityRepresentative",
                         "User"}
               THEN x.teamId = r
               ELSE FALSE}]

\* C2: a registerTeam that answered with an error has left no row of its own
\* in the store: no Team, TeamMember, FacultyMentor, CommunityRepresentative
\* or User row of the request exists, whatever step failed.
C2_ErrorLeavesNothing ==
    \A r \in Requests :
       res[r].status >= HttpStatus.BAD_REQUEST => RowsOfRequest(r) = NoRows

\* a registration failed on creating the leader's account, after its team
\* and members had been created inside the transaction
C2_Witness ==
    \E r \in Requests :
       /\ thrown[r].at = "userCreate"
       /\ res[r].status = HttpStatus.INTERNAL_SERVER_ERROR
       /\ RowsOfRequest(r) = NoRows

\* C3: of two registrations racing for one team name at most one commits, and
\* the one the unique index on Team.teamName rejects is answered 409 with the
\* team-name conflict, never the generic failure. The upload variant answers
\* 500 for every exception, so this is violated.
C3_RaceLoserGetsConflict ==
    /\ \A t, u \in db["Team"] : t.teamName = u.teamName => t = u
    /\ \A r \in Requests :
          thrown[r].target = "Team_teamName_key" =>
             res[r] = sendError("Team name already exists", HttpStatus.CONFLICT)

----------------------------------------------------------------------------
(* Properties of submitEvaluation, under SpecEvaluate *)

\* C4: the committed store never holds two Evaluation rows for one
\* (submissionId, evaluatorId) pair, whatever the interleaving of calls.
C4_OneEvaluationPerPair ==
    \A e, f \in db["Evaluation"] :
       (e.submissionId = f.submissionId /\ e.evaluatorId = f.evaluatorId) => e = f

\* two first-time submissions of one pair raced: one committed its row, the
\* other's create was rejected by the unique index
C4_Witness ==
    \E r, q \in Requests :
       /\ r # q
       /\ local[r].existingEvaluation = {}
       /\ thrown[r].target = "Evaluation_submissionId_evaluatorId_key"
       /\ res[q].status = HttpStatus.OK
       /\ \E e \in db["Evaluation"] : e.id = q

\* the (criteriaId, score) pairs of a score list
PairsOf(scores) == {scores[i] : i \in 1..Len(scores)}

\* the committed state of the Evaluation rows `rows` in store d, without the
\* ids of the score rows: each row with the pairs of its scores
StateOf(d, rows) ==
    {[evaluation |-> e,
      scores |-> {Score(s.criteriaId, s.score) :
                    s \in ScoresOf(d["EvaluationScore"], e.id)},
      count |-> Cardinality(ScoresOf(d["EvaluationScore"], e.id))] : e \in rows}

\* the committed state of the pair request r submits for
StateOfPair(d, r) ==
    StateOf(d, EvaluationOf(d["Evaluation"], body[r].submissionId, body[r].userId))

\* request r is in flight, its findUnique has answered the row the store
\* holds for its pair, and r submits what that row already holds: the same
\* scores, the same comments, under criteria nobody changed
Resubmits(r) ==
    /\ pc[r] \notin {"idle", "done"}
    /\ body[r].kind = "submitEvaluation"
    /\ criteriaOps = 0
    /\ local[r].existingEvaluation =
          EvaluationOf(db["Evaluation"], body[r].submissionId, body[r].userId)
    /\ \E s \in StateOfPair(db, r) :
          /\ s.scores = PairsOf(body[r].scores)
          /\ s.count = Len(body[r].scores)
          /\ s.evaluation.comments = body[r].comments

\* C5: a submitEvaluation that finds and submits again what the store holds
\* for its pair (a second identical call) ends with the store holding what it held:
\* one Evaluation row, the same N score rows, not 2N, the same total and
\* comments; and it ends in success unless the store failed or deadlocked.
C5_Idempotent ==
    [][\A r \in Requests :
          (Resubmits(r) /\ pc'[r] = "done") =>
             /\ StateOf(db', EvaluationOf(db'["Evaluation"], body[r].submissionId,
                                          body[r].userId))
                  = StateOfPair(db, r)
             /\ Cardinality(StateOfPair(db, r)) = 1
             /\ \/ res'[r].status = HttpStatus.OK
                \/ thrown'[r].code \in {"P1001", "P2034"}]_vars

\* a second identical call has replaced the two scores and is about to commit
C5_Witness ==
    \E r \in Requests :
       /\ Resubmits(r)
       /\ pc[r] = "commit"
       /\ Len(body[r].scores) = 2
       /\ txDel[r]["EvaluationScore"] # {}

\* C6: the committed Evaluation row of a pair and its score rows change only
\* together, in the commit of one call, and then hold exactly that call's
\* scores, total and comments: no committed state mixes two calls.
C6_NoMixing ==
    [][\A e \in db'["Evaluation"] :
          (\/ e \notin db["Evaluation"]
           \/ ScoresOf(db'["EvaluationScore"], e.id)
                # ScoresOf(db["EvaluationScore"], e.id)) =>
             \E r \in Requests :
                /\ pc[r] = "commit" /\ pc'[r] = "done"
                /\ e = EvaluationRow(local[r].evaluationRecord, r)
                /\ StateOf(db', {e}) =
                     {[evaluation |-> e, scores |-> PairsOf(body[r].scores),
                       count |-> Len(body[r].scores)]}]_vars

\* two resubmissions of one pair with different scores run at once: one is
\* about to commit, the other waits for its locks
C6_Witness ==
    \E r, q \in Requests :
       /\ pc[r] = "commit"
       /\ local[r].existingEvaluation # {}
       /\ pc[q] \in {"deleteScores", "updateEvaluation"}
       /\ r \in Blockers(q)
       /\ body[q].scores # body[r].scores

\* C7: the loser of a first-time race, whose create the unique index rejects,
\* is retried as an update, so it ends with a success response like the
\* winner. The code has no retry: the rejection reaches the catch block and
\* the loser is answered 500, so this is violated.
C7_RaceLoserSucceeds ==
    \A r \in Requests :
       thrown[r].target = "Evaluation_submissionId_evaluatorId_key" =>
          res[r].status = HttpStatus.OK

\* C8: every step of a submitEvaluation other than its successful commit
\* leaves the committed Evaluation and EvaluationScore rows as they are, so a
\* call that fails at any step has changed nothing.
C8_FailureChangesNothing ==
    [][\A r \in Requests :
          (pc'[r] # pc[r] /\ res'[r].status # HttpStatus.OK) =>
             /\ db'["Evaluation"] = db["Evaluation"]
             /\ db'["EvaluationScore"] = db["EvaluationScore"]]_vars

\* a resubmission failed on inserting the new scores, after the delete and
\* the update; the evaluation still holds its two old scores
C8_Witness ==
    \E r \in Requests :
       /\ local[r].existingEvaluation # {}
       /\ thrown[r].at = "createScores"
       /\ res[r].status = HttpStatus.INTERNAL_SERVER_ERROR
       /\ \E e \in db["Evaluation"] :
             /\ e.comments = "solid"
             /\ Cardinality(ScoresOf(db["EvaluationScore"], e.id)) = 2

----------------------------------------------------------------------------
(* Properties of the total, under SpecNormalizer *)

\* the positions of the submitted pairs whose criterion is in the table
Matched(criteria, scores) ==
    {i \in 1..Len(scores) : \E c \in criteria : c.id = scores[i].criteriaId}

WeightOf(criteria, criteriaId) ==
    (CHOOSE c \in criteria : c.id = criteriaId).weightage

\* the sum of f over the set S
RECURSIVE Sum(_, _)
Sum(f, S) ==
    IF S = {} THEN 0
    ELSE LET x == CHOOSE y \in S : TRUE IN f[x] + Sum(f, S \ {x})

\* sum(rawScore_i * weight_i) / 100 over the matched pairs
WeightedSum(criteria, scores) ==
    Rat(Sum([i \in Matched(criteria, scores) |->
               scores[i].score * WeightOf(criteria, scores[i].criteriaId)],
            Matched(criteria, scores)), 100)

\* the sum of the weights of the matched pairs
TotalWeight(criteria, scores) ==
    Sum([i \in Matched(criteria, scores) |->
           WeightOf(criteria, scores[i].criteriaId)], Matched(criteria, scores))

\* request r has computed its total and not gone further
Computed(r) == pc[r] = "findEvaluation"

MatchedOnly(criteria, scores) ==
    SelectSeq(scores, LAMBDA s : CriteriaFind(criteria, s.criteriaId) # {})

\* C10: a submitted pair whose criterionId is in no row of the criteria table
\* adds to neither sum: the total is the total of the score list with every
\* such pair removed.
C10_UnmatchedIgnored ==
    \A r \in Requests :
       Computed(r) =>
          /\ local[r].totalScore =
                TotalScore(local[r].criteria,
                           MatchedOnly(local[r].criteria, body[r].scores))
          /\ ScoreLoop(local[r].criteria, body[r].scores, 1) =
                [totalScore |-> WeightedSum(local[r].criteria, body[r].scores),
                 totalWeightage |-> TotalWeight(local[r].criteria, body[r].scores)]

\* a total computed from one matched pair and one pair of no criterion
C10_Witness ==
    \E r \in Requests :
       /\ Computed(r)
       /\ Len(body[r].scores) = 2
       /\ Cardinality(Matched(local[r].criteria, body[r].scores)) = 1
       /\ local[r].totalScore # <<0, 1>>

----------------------------------------------------------------------------
(* Properties of the eligibility checks, under SpecValidator *)

\* the rule a refusal message of registerTeam stands for
RuleOf(message) ==
    CASE message = "Team must have exactly 6 members" -> "WRONG_ROSTER_SIZE"
      [] message = "Team must have exactly one Team Leader" -> "LEADER_COUNT_INVALID"
      [] message = "Team Leader must be an IEEE member with valid membership number"
           -> "LEADER_NOT_IEEE_MEMBER"
      [] message \in {"Team must have at least one School Student (6th-9th standard)",
                      "Team must have exactly one School Student"}
           -> "SCHOOL_STUDENT_COUNT_INVALID"
      [] message \in {"School Student must have a valid school standard (6th-9th)",
                      "School Student must have a valid school standard (7th-9th)",
                      "School ID PDF is required for School Student"}
           -> "SCHOOL_STUDENT_MISSING_FIELDS"
      [] message = "Team must have at least one female member" -> "NO_FEMALE_MEMBER"
      [] OTHER -> "NONE"

\* a leader without the IEEE flag or without a membership number
LacksIeee(m) == IsLeader(m) /\ (~Truthy(m.isIeeeMember) \/ ~Truthy(m.ieeeNumber))

\* the school student in position i has no standard or, where artifacts are
\* uploaded at all, no file for its position
LacksFields(members, files, i) ==
    /\ IsStudent(members[i])
    /\ \/ ~Truthy(members[i].schoolStandard)
       \/ impl = "upload" /\ i \notin files

\* the first violated rule in the stated order; "NONE" for an eligible roster
FirstViolated(members, files) ==
    IF Len(members) # 6 THEN "WRONG_ROSTER_SIZE"
    ELSE IF teamLeaderCount(members) # 1 THEN "LEADER_COUNT_INVALID"
    ELSE IF \E i \in 1..Len(members) : LacksIeee(members[i])
         THEN "LEADER_NOT_IEEE_MEMBER"
    ELSE IF schoolStudentCount(members) # 1 THEN "SCHOOL_STUDENT_COUNT_INVALID"
    ELSE IF \E i \in 1..Len(members) : LacksFields(members, files, i)
         THEN "SCHOOL_STUDENT_MISSING_FIELDS"
    ELSE IF femaleCount(members) = 0 THEN "NO_FEMALE_MEMBER"
    ELSE "NONE"

\* request r was refused by an eligibility check
Refused(r) ==
    /\ pc[r] = "done"
    /\ body[r].kind = "registerTeam"
    /\ res[r].status = HttpStatus.BAD_REQUEST

\* C11: a refused roster is refused for the first rule it violates in the
\* order size, leader count, leader IEEE membership, school-student count,
\* school-student fields, female member. The code checks IEEE membership and
\* school-student fields member by member before it counts leaders and
\* students, so this is violated.
C11_FirstRuleInOrder ==
    \A r \in Requests :
       Refused(r) =>
          RuleOf(res[r].text) = FirstViolated(body[r].members, body[r].files)

\* the roster of request r, once the request has arrived
Roster(r) == body[r].members

\* request r is a registerTeam that is past its eligibility checks: refused
\* by one of them, or on its way to the store
Validated(r) ==
    /\ body[r].kind = "registerTeam"
    /\ pc[r] \notin {"idle", "uploads"}
    /\ res[r].text # "Failed to upload files"

\* a roster of 6 with exactly one leader, who lacks the IEEE flag or number
OneLeaderLackingIeee(members) ==
    /\ Len(members) = 6
    /\ teamLeaderCount(members) = 1
    /\ \E i \in 1..Len(members) : LacksIeee(members[i])

\* C12: a roster of 6 with exactly one leader, who lacks an IEEE number or
\* flag, is refused for LEADER_NOT_IEEE_MEMBER whatever its other members
\* are. A school student without its fields that stands before the leader is
\* reported instead, so this is violated.
C12_LeaderNotIeee ==
    \A r \in Requests :
       (Validated(r) /\ OneLeaderLackingIeee(Roster(r))) =>
          /\ Refused(r)
          /\ RuleOf(res[r].text) = "LEADER_NOT_IEEE_MEMBER"

\* C13: a roster whose length is not 6 is refused for its size in the
\* handler's first step, whatever else is wrong with it: the request never
\* waits on an upload or on the store, no upload is started and no row is
\* written.
C13_SizeFirst ==
    \A r \in Requests :
       (body[r].kind = "registerTeam" /\ Len(Roster(r)) # 6) =>
          /\ Refused(r)
          /\ RuleOf(res[r].text) = "WRONG_ROSTER_SIZE"
          /\ uploads[r] = <<>>
          /\ thrown[r] = NoError
          /\ RowsOfRequest(r) = NoRows

\* the upload variant refused a roster of the wrong size that came with
\* files to upload and that also has no single leader
C13_Witness ==
    \E r \in Requests :
       /\ Refused(r)
       /\ impl = "upload"
       /\ Len(Roster(r)) # 6
       /\ body[r].files # {}
       /\ teamLeaderCount(Roster(r)) # 1
       /\ RuleOf(res[r].text) = "WRONG_ROSTER_SIZE"

\* the positions of the leaders and of the female members of a roster
LeaderSlots(members) == {i \in 1..Len(members) : IsLeader(members[i])}

FemaleSlots(members) == {i \in 1..Len(members) : IsFemale(members[i])}

\* every upload of request r was confirmed by Cloudinary
AllResolved(r) == \A p \in DOMAIN uploads[r] : uploads[r][p] = "resolved"

\* a roster of 6 with one leader, an IEEE member, and one school student with
\* its standard and, where artifacts are uploaded, its resolved artifact
ValidButFemale(r, members, files) ==
    /\ Len(members) = 6
    /\ Cardinality(LeaderSlots(members)) = 1
    /\ \A i \in LeaderSlots(members) : ~LacksIeee(members[i])
    /\ Cardinality(StudentSlots(members)) = 1
    /\ \A i \in StudentSlots(members) : ~LacksFields(members, files, i)
    /\ impl = "upload" => AllResolved(r)

\* C14: a roster of 6 without a female member that is otherwise valid is
\* refused for NO_FEMALE_MEMBER, and no row of its team is written.
C14_NoFemale ==
    \A r \in Requests :
       ( /\ Validated(r)
         /\ ValidButFemale(r, Roster(r), body[r].files)
         /\ FemaleSlots(Roster(r)) = {} ) =>
          /\ Refused(r)
          /\ RuleOf(res[r].text) = "NO_FEMALE_MEMBER"
          /\ RowsOfRequest(r) = NoRows

\* the upload variant refused an all-male roster whose student's artifact had
\* been uploaded
C14_Witness ==
    \E r \in Requests :
       /\ Refused(r)
       /\ impl = "upload"
       /\ ValidButFemale(r, Roster(r), body[r].files)
       /\ body[r].files # {}
       /\ FemaleSlots(Roster(r)) = {}
       /\ RuleOf(res[r].text) = "NO_FEMALE_MEMBER"

\* the committed school students of a team
StudentsOfTeam(teamId) ==
    {m \in db["TeamMember"] : m.teamId = teamId /\ m.role = "SchoolStudent"}

\* C15: a roster is accepted only with exactly one school student; rosters
\* with none and rosters with two or more are refused for
\* SCHOOL_STUDENT_COUNT_INVALID, so every committed team has exactly one
\* school student. The registerTeam of participant.handler.ts refuses only a
\* roster with no school student, so this is violated.
C15_ExactlyOneStudent ==
    /\ \A t \in db["Team"] : Cardinality(StudentsOfTeam(t.id)) = 1
    /\ \A r \in Requests :
          ( /\ Validated(r)
            /\ Len(Roster(r)) = 6
            /\ Cardinality(LeaderSlots(Roster(r))) = 1
            /\ \A i \in 1..6 : ~LacksIeee(Roster(r)[i])
            /\ \A i \in 1..6 : ~LacksFields(Roster(r), body[r].files, i)
            /\ Cardinality(StudentSlots(Roster(r))) # 1 ) =>
             /\ Refused(r)
             /\ RuleOf(res[r].text) = "SCHOOL_STUDENT_COUNT_INVALID"

\* C16: a roster with a school student that lacks its school standard or the
\* resolved artifact of its position is refused for
\* SCHOOL_STUDENT_MISSING_FIELDS, so every committed school student has a
\* non-empty schoolStandard and a non-null artifact URL. The registerTeam of
\* participant.handler.ts takes no artifact and stores none, so this is
\* violated.
C16_StudentFields ==
    \A m \in db["TeamMember"] :
       m.role = "SchoolStudent" =>
          /\ m.schoolStandard \notin {Null, Undefined, ""}
          /\ m.schoolIdPdf # NoUrl

\* some upload of request r was rejected by Cloudinary
SomeRejected(r) == \E p \in DOMAIN uploads[r] : uploads[r][p] = "rejected"

\* the member rows of request r, committed or written in its transaction
MemberRowsOf(r) == {m \in db["TeamMember"] \cup txIns[r]["TeamMember"] : m.teamId = r}

\* C17: when an upload of a registerTeam request fails, the request is
\* answered with the upload failure and never reaches the store: no row of
\* its team is written, and an artifact URL in a member row is always the URL
\* of a resolved upload of that member's position.
C17_UploadFailureFailsAll ==
    \A r \in Requests :
       /\ (pc[r] \notin {"idle", "uploads"} /\ SomeRejected(r)) =>
             /\ pc[r] = "done"
             /\ res[r] = sendError("Failed to upload files",
                                   HttpStatus.INTERNAL_SERVER_ERROR)
             /\ thrown[r] = NoError
             /\ RowsOfRequest(r) = NoRows
       /\ \A m \in MemberRowsOf(r) :
             m.schoolIdPdf # NoUrl =>
                /\ m.id[2] \in DOMAIN uploads[r]
                /\ uploads[r][m.id[2]] = "resolved"
                /\ m.schoolIdPdf = SecureUrl(r, m.id[2])

\* a request with two uploads, one resolved and one rejected, was answered
\* with the upload failure
C17_Witness ==
    \E r \in Requests :
       /\ pc[r] = "done"
       /\ \E p, q \in DOMAIN uploads[r] :
             uploads[r][p] = "rejected" /\ uploads[r][q] = "resolved"
       /\ res[r].text = "Failed to upload files"
       /\ RowsOfRequest(r) = NoRows

\* C18: registerTeam goes on, or answers, only after every upload of the
\* request has reached an outcome: past the await no upload is still in
\* flight. Promise.all rejects at the first rejection, while other uploads of
\* the request are still running, so this is violated.
C18_NoUploadInFlight ==
    \A r \in Requests :
       pc[r] \notin {"idle", "uploads"} =>
          \A p \in DOMAIN uploads[r] : uploads[r][p] # "pending"

----------------------------------------------------------------------------
(* Properties of the leader identity, under SpecIdentity *)

\* the committed users that refer to a team, and the team's leader rows
IdentitiesOf(users, teamId) == {u \in users : u.teamId = teamId}

LeadersOf(members, teamId) ==
    {m \in members : m.teamId = teamId /\ m.role = "TeamLeader"}

\* C19 as stated: in every state each committed team has exactly one user
\* that refers to it, with role "participant" and the name and email of the
\* team's leader, and a user refers to a team only if registerTeam created it
\* with that team. editUser rewrites the name and the role of any user, a
\* leader identity included, so this is violated.
C19_IdentityInEveryState ==
    /\ \A t \in db["Team"] :
          /\ Cardinality(IdentitiesOf(db["User"], t.id)) = 1
          /\ \A u \in IdentitiesOf(db["User"], t.id) :
                /\ u.role = "participant"
                /\ \E m \in LeadersOf(db["TeamMember"], t.id) :
                      u.name = m.fullName /\ u.email = m.email
    /\ \A u \in db["User"] :
          u.teamId # NoTeam =>
             /\ u.id = u.teamId
             /\ \E t \in db["Team"] : t.id = u.teamId

\* a step keeps the leader identities: one user per committed team, with the
\* leader's email; created by the commit that creates the team, with role
\* "participant" and the leader's name; its name and role change with
\* editUser only; no other user ever refers to a team
IdentityStep ==
    /\ \A t \in db'["Team"] :
          /\ Cardinality(IdentitiesOf(db'["User"], t.id)) = 1
          /\ \A u \in IdentitiesOf(db'["User"], t.id) :
                /\ u.id = t.id
                /\ \E m \in LeadersOf(db'["TeamMember"], t.id) :
                      /\ u.email = m.email
                      /\ t \notin db["Team"] =>
                            /\ u.name = m.fullName
                            /\ u.role = "participant"
                            /\ IdentitiesOf(db["User"], t.id) = {}
    /\ \A u \in db'["User"] :
          u.teamId # NoTeam => \E t \in db'["Team"] : t.id = u.teamId
    /\ \A u \in db["User"] : \A v \in db'["User"] :
          ( /\ u.id = v.id
            /\ u.teamId # NoTeam
            /\ u.name # v.name \/ u.role # v.role ) => editUser

\* C19: each committed team has exactly one user that refers to it, with the
\* email of the team's leader, committed by the transaction that commits the
\* team, at that moment with role "participant" and the leader's name; the
\* name and the role stay until editUser changes them, and no operation but
\* registerTeam creates a user that refers to a team.
C19_Identity == [][IdentityStep]_vars

\* a team is committed with its leader identity beside a user that addUser
\* created from a body that names the team
C19_Witness ==
    \E t \in db["Team"] :
       /\ \E u \in IdentitiesOf(db["User"], t.id) :
             u.role = "participant" /\ u.email = "lead2@ieee.org"
       /\ \E a \in db["User"] : a.id = AddedUserId("lead1@ieee.org") /\ a.teamId = NoTeam

----------------------------------------------------------------------------
(* Properties of createOrUpdateSubmission, under SpecSubmission *)

\* request r answers a save with success in this step
Saves(r) ==
    /\ pc[r] = "upsertWrite"
    /\ pc'[r] = "done"
    /\ res'[r].status = HttpStatus.OK

\* the row holds exactly the fields of the body, NULL where the body has none
HoldsExactly(row, fields) ==
    \A x \in SubmissionFields :
       row[x] = IF fields[x] = Undefined THEN Null ELSE fields[x]

\* a successful save leaves the team's submission with exactly its fields
SaveReplaces ==
    \A r \in Requests :
       Saves(r) =>
          \E s \in SubmissionOfTeam(db'["Submission"], local[r].teamId) :
             HoldsExactly(s, body[r].fields)

\* C20: createOrUpdateSubmission is an idempotent replace: a team never has
\* more than one submission, the first save creates it, and after every save
\* the submission's fields are exactly the fields of that save; a field the
\* later save leaves out does not keep its earlier value. The update of the
\* upsert skips the fields the body leaves out, so this is violated.
C20_IdempotentReplace ==
    /\ [](\A t \in db["Team"] :
            Cardinality(SubmissionOfTeam(db["Submission"], t.id)) <= 1)
    /\ [][SaveReplaces]_vars

----------------------------------------------------------------------------
(* Properties of the team aggregate, under SpecTeam *)

MembersOf(rows, teamId) == {m \in rows : m.teamId = teamId}

\* a step leaves every committed team and its member rows as they are
TeamsKept ==
    \A t \in db["Team"] :
       /\ t \in db'["Team"]
       /\ MembersOf(db'["TeamMember"], t.id) = MembersOf(db["TeamMember"], t.id)

\* C21: every committed team has exactly 6 member rows, and once a team is
\* committed no operation adds, removes or changes its name, its theme or
\* its member rows.
C21_TeamImmutable ==
    /\ [](\A t \in db["Team"] :
            Cardinality(MembersOf(db["TeamMember"], t.id)) = 6)
    /\ [][TeamsKept]_vars

\* team 1 is committed with its 6 members; since then its leader has saved a
\* submission and an administrator has changed the leader's account
C21_Witness ==
    /\ \E t \in db["Team"] :
          t.id = 1 /\ Cardinality(MembersOf(db["TeamMember"], 1)) = 6
    /\ SubmissionOfTeam(db["Submission"], 1) # {}
    /\ \E u \in db["User"] : u.teamId = 1 /\ u.role = "evaluator" /\ u.deleted

----------------------------------------------------------------------------
(* Properties of SpecLogin *)

\* the rows of the store other than the users
OwnedRows(store) == [t \in Tables \ {"User"} |-> store[t]]

\* the step of deleteUser that answers with success leaves the row of the user
\* in the store with deleted = true and no other field changed, and changes
\* no other row
DeleteKeeps(r) ==
    (pc[r] = "userUpdate" /\ res'[r].status = HttpStatus.OK)
       => /\ \E u \in db["User"] :
               /\ u.id = body[r].id
               /\ db'["User"] = (db["User"] \ {u}) \cup {[u EXCEPT !.deleted = TRUE]}
          /\ OwnedRows(db') = OwnedRows(db)

\* deleteUser of an id no user has answers 404 and changes nothing
DeleteOfNoUser(r) ==
    (/\ pc[r] = "userUpdate" /\ pc'[r] = "done"
     /\ \A u \in db["User"] : u.id # body[r].id
     /\ thrown'[r].code # "P1001")
       => res'[r].status = HttpStatus.NOT_FOUND /\ db' = db

\* the users of the email are all deleted, and the password is the one of
\* such a user
DeletedUserLogsIn(r) ==
    /\ pc[r] = "findFirst"
    /\ \E u \in db["User"] :
          /\ u.email = body[r].email
          /\ comparePassword(body[r].password, u.password)
    /\ \A u \in db["User"] : u.email = body[r].email => u.deleted

\* the lookup of such a login ends the request, with 401 unless the store
\* failed
LoginRejected(r) ==
    (DeletedUserLogsIn(r) /\ pc'[r] # pc[r])
       => /\ pc'[r] = "done"
          /\ res'[r].status # HttpStatus.OK
          /\ thrown'[r] = NoError => res'[r].status = HttpStatus.UNAUTHORIZED

SoftDeleteStep ==
    \A r \in Requests : DeleteKeeps(r) /\ DeleteOfNoUser(r) /\ LoginRejected(r)

----------------------------------------------------------------------------
(* Properties of the evaluation pairs, under SpecPairs *)

\* the step is the successful commit of request r
Commits(r) ==
    /\ pc[r] = "commit" /\ pc'[r] = "done"
    /\ res'[r].status = HttpStatus.OK

\* Evaluation row e is of the pair a request commits for in the step
CommittedFor(e) ==
    \E r \in Requests :
       /\ Commits(r)
       /\ body[r].submissionId = e.submissionId
       /\ body[r].userId = e.evaluatorId

\* every Evaluation row of another pair is in the store before and after the
\* step, with the same score rows
OtherPairsKept ==
    \A e \in db["Evaluation"] \cup db'["Evaluation"] :
       ~CommittedFor(e) =>
          /\ e \in db["Evaluation"]
          /\ e \in db'["Evaluation"]
          /\ ScoresOf(db'["EvaluationScore"], e.id)
               = ScoresOf(db["EvaluationScore"], e.id)

\* a committed resubmission leaves none of the old score rows of its pair,
\* and as many rows as it submitted
OldScoresGone ==
    \A r \in Requests :
       (Commits(r) /\ local[r].existingEvaluation # {}) =>
          LET id == IdOf(local[r].existingEvaluation) IN
          /\ ScoresOf(db'["EvaluationScore"], id)
               \cap ScoresOf(db["EvaluationScore"], id) = {}
          /\ Cardinality(ScoresOf(db'["EvaluationScore"], id)) = Len(body[r].scores)

\* C23: a submitEvaluation of evaluator E for submission S changes only the
\* Evaluation of the pair (S, E) and its score rows: the Evaluation rows,
\* totals, comments and score rows of every other evaluator and of every
\* other submission stay as they are, and after a resubmission the old score
\* rows of (S, E) are gone.
C23_OnlyOwnPair == [][OtherPairsKept /\ OldScoresGone]_vars

\* both evaluators scored s1 on two criteria; evaluator1 has resubmitted two
\* scores since, and each of the two holds exactly 2 score rows
C23_Witness ==
    \E r \in Requests :
       /\ pc[r] = "done" /\ res[r].status = HttpStatus.OK
       /\ local[r].existingEvaluation # {}
       /\ IdOf(local[r].existingEvaluation) = 0
       /\ ScoresOf(db["EvaluationScore"], 0)
            = ScoreRows(r, 0, <<Score("A", 80), Score("B", 70)>>)
       /\ ScoresOf(db["EvaluationScore"], SecondEvaluation)
            = ScoreRows(SecondEvaluation, SecondEvaluation,
                        <<Score("A", 70), Score("B", 80)>>)

----------------------------------------------------------------------------
(* Properties of the score rows, under SpecEvaluate *)

\* UNIQUE INDEX EvaluationScore_evaluationId_criteriaId_key holds of the
\* committed rows
ScoresUnique ==
    \A s, t \in db["EvaluationScore"] :
       (s.evaluationId = t.evaluationId /\ s.criteriaId = t.criteriaId) => s = t

\* the score rows of the Evaluation a committing call answers with are one
\* row for each pair the call submitted, with the raw score of the pair
OneRowPerPair ==
    \A r \in Requests :
       Commits(r) =>
          LET rows == ScoresOf(db'["EvaluationScore"], local[r].evaluationRecord) IN
          /\ Cardinality(rows) = Len(body[r].scores)
          /\ {Score(s.criteriaId, s.score) : s \in rows} = PairsOf(body[r].scores)

\* C24: after every successful submitEvaluation the score rows of the
\* resulting Evaluation are exactly one row per submitted (criterionId,
\* rawScore) pair with that raw score, and in every reachable state no two
\* score rows share one (evaluation, criterion) pair.
C24_ExactScoreRows == [](ScoresUnique) /\ [][OneRowPerPair]_vars

\* a call that submitted two pairs has committed its two rows, and a call
\* that named one criterion twice was rejected by the unique index
C24_Witness ==
    \E r, q \in Requests :
       /\ res[r].status = HttpStatus.OK
       /\ \E e \in db["Evaluation"] :
             ScoresOf(db["EvaluationScore"], e.id)
                = ScoreRows(r, e.id, <<Score("A", 80), Score("B", 70)>>)
       /\ thrown[q].target = "EvaluationScore_evaluationId_criteriaId_key"
       /\ res[q].status = HttpStatus.INTERNAL_SERVER_ERROR

----------------------------------------------------------------------------
(* Termination of the requests, under SpecAnswer *)

\* C25: under fairness every registerTeam and every submitEvaluation request
\* that has arrived is answered in the end: an upload or a store call that
\* never delivers an outcome becomes a failure response and does not leave
\* the request waiting forever. No handler bounds its waits, so a request
\* whose upload or store statement never calls back stays at its await: this
\* is violated.
C25_EveryRequestAnswers ==
    \A r \in Requests : (pc[r] # "idle") ~> (pc[r] = "done")

----------------------------------------------------------------------------
(* Properties of the conflict response of registerTeam, under SpecRegister *)

\* C26: registerTeam answers 409 "Team name already exists" only if a Team
\* with the requested name is in the store, and a unique-constraint rejection
\* of the leader's email is not answered as a team-name conflict. The catch
\* block of participant.handler.ts answers every P2002 with the team-name
\* conflict, so this is violated.
C26_ConflictOnlyForName ==
    [][\A r \in Requests :
          /\ (pc[r] # "done" /\ res'[r].status = HttpStatus.CONFLICT) =>
                \E t \in db'["Team"] : t.teamName = body[r].teamName
          /\ thrown'[r].target = "User_email_key" =>
                res'[r].status # HttpStatus.CONFLICT]_vars

----------------------------------------------------------------------------
(* Properties of the criteria the scores refer to, under SpecEvaluate *)

\* every committed score row names a criterion of the criteria table
ScoresReferToCriteria ==
    \A s \in db["EvaluationScore"] :
       CriteriaFind(db["EvaluationCriteria"], s.criteriaId) # {}

\* request r is about to insert its scores, one of which names a criterion
\* the table does not hold
NamesUnknownCriterion(r) ==
    /\ pc[r] = "createScores"
    /\ \E i \in 1..Len(body[r].scores) :
          \A c \in db["EvaluationCriteria"] : c.id # body[r].scores[i].criteriaId

\* the insert of such a request ends it with a failure and nothing persisted
UnknownCriterionFails ==
    \A r \in Requests :
       (NamesUnknownCriterion(r) /\ pc'[r] # pc[r]) =>
          /\ pc'[r] = "done"
          /\ res'[r].status = HttpStatus.INTERNAL_SERVER_ERROR
          /\ db' = db
          /\ txIns'[r] = NoRows /\ txDel'[r] = NoRows

\* a step that removes a criterion removes none a committed score names, and
\* leaves the scores as they are
ReferencedCriteriaStay ==
    \A c \in db["EvaluationCriteria"] :
       (\A d \in db'["EvaluationCriteria"] : d.id # c.id) =>
          /\ \A s \in db["EvaluationScore"] : s.criteriaId # c.id
          /\ db'["EvaluationScore"] = db["EvaluationScore"]

\* C27: in every reachable state every EvaluationScore row refers to a
\* criterion of the EvaluationCriteria table: a submitEvaluation that names a
\* criterion the table does not hold persists nothing and is answered with a
\* failure, and deleteEvaluationCriteria of a criterion some score refers to
\* leaves the criterion and the scores as they are.
C27_ScoresReferToCriteria ==
    [](ScoresReferToCriteria) /\ [][UnknownCriterionFails /\ ReferencedCriteriaStay]_vars

\* a submission that named the missing criterion C was rejected by the
\* foreign key, a criteria call has run, and the store holds scores
C27_Witness ==
    /\ \E r \in Requests :
          /\ thrown[r].target = "EvaluationScore_criteriaId_fkey"
          /\ res[r].status = HttpStatus.INTERNAL_SERVER_ERROR
    /\ criteriaOps > 0
    /\ db["EvaluationScore"] # {}

----------------------------------------------------------------------------
(* Properties of the stored leader, under SpecRegister *)

\* C28: the stored TeamLeader of every persisted team has isIeeeMember = true
\* and an IEEE number that is not empty, for every form of the IEEE flag the
\* validation accepts, the boolean true as well as the string "Yes".
\* participant.handler.ts stores member.isIeeeMember === "Yes", which is false
\* for the boolean true the check had accepted, so this is violated.
C28_LeaderStoredAsAccepted ==
    \A m \in db["TeamMember"] :
       m.role = "TeamLeader" =>
          /\ m.isIeeeMember = TRUE
          /\ m.ieeeNumber \notin {Null, ""}

----------------------------------------------------------------------------
(* Properties of the total beside criteria changes, under SpecEvaluate *)

\* C29: when a submitEvaluation commits, the total of the Evaluation it
\* stores is the normalized weighted total of the scores it stores under the
\* weights the criteria table holds at that moment, whatever criteria calls
\* ran beside it. The criteria are read before the transaction begins and
\* not again, so an updateEvaluationCriteria in between leaves the total
\* computed under the old weights: this is violated.
C29_TotalUnderCurrentWeights ==
    [][\A r \in Requests :
          Commits(r) =>
             \E e \in db'["Evaluation"] :
                /\ e.id = local[r].evaluationRecord
                /\ e.totalScore = TotalScore(db'["EvaluationCriteria"],
                                             body[r].scores)]_vars

----------------------------------------------------------------------------
(* Properties of updateDeadlines, under SpecDeadline *)

\* a step that changes a row of the Deadline table is the update of a
\* request and changes of the row only the dates the body of the request
\* holds
OnlyPresentDatesChange ==
    \A d \in db["Deadline"] :
       \E e \in db'["Deadline"] :
          /\ e.id = d.id
          /\ e # d =>
                \E r \in Requests :
                   /\ pc[r] = "deadlineWrite" /\ pc'[r] = "done"
                   /\ \A x \in DeadlineFields :
                         e.dates[x] # d.dates[x] =>
                            /\ body[r].fields[x] # Undefined
                            /\ e.dates[x] = Date(body[r].fields[x])

\* C30: after any sequence and any interleaving of updateDeadlines calls the
\* Deadline table holds at most one row: the first call creates it, every
\* later call updates that row and changes only the dates its body holds.
\* Two first calls that both find the table empty both create a row, so this
\* is violated.
C30_OneDeadlineRow ==
    [](Cardinality(db["Deadline"]) <= 1) /\ [][OnlyPresentDatesChange]_vars

=============================================================================
